---------------------------- MODULE Spec2Model ----------------------------
(***************************************************************************)
(* A model of the Poodle Go SDK (usepoodle/poodle-go): the Email model     *)
(* and its validation (email.go), the error taxonomy (errors.go), the      *)
(* HTTP client's request construction and response classification          *)
(* (http.go), the configuration (config.go) and the Client facade with     *)
(* its reader/writer lock (client.go).                                     *)
(*                                                                         *)
(* Representation.  A Go string is a sequence of one-character strings,   *)
(* so that TrimSpace, Contains, TrimRight, Atoi, Sprintf("%d") and the     *)
(* e-mail regular expression are computed character by character.  The    *)
(* HTML and Text bodies of an Email, which may be larger than 10 MiB, are  *)
(* run-length encoded: a sequence of runs [ch, n].  Map keys and variant   *)
(* tags are TLA+ strings.  A response body is the JSON document it holds   *)
(* (or a marker that the bytes are not JSON); encoding/json's Unmarshal    *)
(* is computed on that document.                                           *)
(***************************************************************************)
EXTENDS Integers, Sequences, FiniteSets, TLC

(***************************************************************************)
(* String literals of the source, character by character.                  *)
(***************************************************************************)
\* ""
sEmpty ==
    <<>>
\* "expired"
sExpired ==
    <<"e","x","p","i","r","e","d">>
\* "trial"
sTrial ==
    <<"t","r","i","a","l">>
\* "limit"
sLimit ==
    <<"l","i","m","i","t">>
\* "timeout"
sTimeout ==
    <<"t","i","m","e","o","u","t">>
\* "/"
sSlash ==
    <<"/">>
\* ".."
sDotDot ==
    <<".",".">>
\* "."
sDot ==
    <<".">>
\* "-"
sHyphen ==
    <<"-">>
\* "@"
sAt ==
    <<"@">>
\* "/v1/send-email"
sSendEmailPath ==
    <<"/","v","1","/","s","e","n","d","-","e","m","a","i","l">>
\* "Bearer "
sBearer ==
    <<"B","e","a","r","e","r"," ">>
\* "application/json"
sApplicationJSON ==
    <<"a","p","p","l","i","c","a","t","i","o","n","/","j","s","o","n">>
\* "POST"
sPOST ==
    <<"P","O","S","T">>
\* "poodle-go/"
sUserAgentPrefix ==
    <<"p","o","o","d","l","e","-","g","o","/">>
\* "1.0.0"
SDKVersion ==
    <<"1",".","0",".","0">>
\* "https://api.usepoodle.com"
DefaultBaseURL ==
    <<"h","t","t","p","s",":","/","/","a","p","i",".","u","s","e","p","o","o","d","l","e",".","c","o","m">>
\* "unknown"
sUnknown ==
    <<"u","n","k","n","o","w","n">>
\* "subscription_expired"
sSubscriptionExpired ==
    <<"s","u","b","s","c","r","i","p","t","i","o","n","_","e","x","p","i","r","e","d">>
\* "trial_limit_reached"
sTrialLimitReached ==
    <<"t","r","i","a","l","_","l","i","m","i","t","_","r","e","a","c","h","e","d">>
\* "limit_reached"
sLimitReached ==
    <<"l","i","m","i","t","_","r","e","a","c","h","e","d">>
\* "Failed to encode request body"
sFailedToEncode ==
    <<"F","a","i","l","e","d"," ","t","o"," ","e","n","c","o","d","e"," ","r","e","q","u","e","s","t"," ","b","o","d","y">>
\* "Failed to create request"
sFailedToCreate ==
    <<"F","a","i","l","e","d"," ","t","o"," ","c","r","e","a","t","e"," ","r","e","q","u","e","s","t">>
\* "Request failed: "
sRequestFailed ==
    <<"R","e","q","u","e","s","t"," ","f","a","i","l","e","d",":"," ">>
\* "Failed to read response body"
sFailedToRead ==
    <<"F","a","i","l","e","d"," ","t","o"," ","r","e","a","d"," ","r","e","s","p","o","n","s","e"," ","b","o","d","y">>
\* "Failed to parse response"
sFailedToParse ==
    <<"F","a","i","l","e","d"," ","t","o"," ","p","a","r","s","e"," ","r","e","s","p","o","n","s","e">>
\* "Network error occurred"
sNetworkErrorOccurred ==
    <<"N","e","t","w","o","r","k"," ","e","r","r","o","r"," ","o","c","c","u","r","r","e","d">>
\* "Connection timeout after "
sConnectionTimeoutAfter ==
    <<"C","o","n","n","e","c","t","i","o","n"," ","t","i","m","e","o","u","t"," ","a","f","t","e","r"," ">>
\* " seconds"
sSeconds ==
    <<" ","s","e","c","o","n","d","s">>
\* "Validation failed"
sValidationFailed ==
    <<"V","a","l","i","d","a","t","i","o","n"," ","f","a","i","l","e","d">>
\* "Invalid request format"
sInvalidRequestFormat ==
    <<"I","n","v","a","l","i","d"," ","r","e","q","u","e","s","t"," ","f","o","r","m","a","t">>
\* "Email validation failed"
sEmailValidationFailed ==
    <<"E","m","a","i","l"," ","v","a","l","i","d","a","t","i","o","n"," ","f","a","i","l","e","d">>
\* "Invalid or missing API key"
sInvalidAPIKey ==
    <<"I","n","v","a","l","i","d"," ","o","r"," ","m","i","s","s","i","n","g"," ","A","P","I"," ","k","e","y">>
\* "Subscription error"
sSubscriptionError ==
    <<"S","u","b","s","c","r","i","p","t","i","o","n"," ","e","r","r","o","r">>
\* "Account suspended"
sAccountSuspended ==
    <<"A","c","c","o","u","n","t"," ","s","u","s","p","e","n","d","e","d">>
\* "Rate limit exceeded. Retry after "
sRateLimitExceeded ==
    <<"R","a","t","e"," ","l","i","m","i","t"," ","e","x","c","e","e","d","e","d","."," ","R","e","t","r","y"," ","a","f","t","e","r"," ">>
\* " seconds."
sSecondsDot ==
    <<" ","s","e","c","o","n","d","s",".">>
\* "HTTP "
sHTTP ==
    <<"H","T","T","P"," ">>
\* " error"
sError ==
    <<" ","e","r","r","o","r">>
\* "From address is required"
sFromRequired ==
    <<"F","r","o","m"," ","a","d","d","r","e","s","s"," ","i","s"," ","r","e","q","u","i","r","e","d">>
\* "From address is not a valid email"
sFromInvalid ==
    <<"F","r","o","m"," ","a","d","d","r","e","s","s"," ","i","s"," ","n","o","t"," ","a"," ","v","a","l","i","d"," ","e","m","a","i","l">>
\* "To address is required"
sToRequired ==
    <<"T","o"," ","a","d","d","r","e","s","s"," ","i","s"," ","r","e","q","u","i","r","e","d">>
\* "To address is not a valid email"
sToInvalid ==
    <<"T","o"," ","a","d","d","r","e","s","s"," ","i","s"," ","n","o","t"," ","a"," ","v","a","l","i","d"," ","e","m","a","i","l">>
\* "Subject is required"
sSubjectRequired ==
    <<"S","u","b","j","e","c","t"," ","i","s"," ","r","e","q","u","i","r","e","d">>
\* "At least one content type (html or text) is required"
sContentRequired ==
    <<"A","t"," ","l","e","a","s","t"," ","o","n","e"," ","c","o","n","t","e","n","t"," ","t","y","p","e"," ","(","h","t","m","l"," ","o","r"," ","t","e","x","t",")"," ","i","s"," ","r","e","q","u","i","r","e","d">>
\* "HTML content exceeds maximum size limit"
sHTMLTooLarge ==
    <<"H","T","M","L"," ","c","o","n","t","e","n","t"," ","e","x","c","e","e","d","s"," ","m","a","x","i","m","u","m"," ","s","i","z","e"," ","l","i","m","i","t">>
\* "Text content exceeds maximum size limit"
sTextTooLarge ==
    <<"T","e","x","t"," ","c","o","n","t","e","n","t"," ","e","x","c","e","e","d","s"," ","m","a","x","i","m","u","m"," ","s","i","z","e"," ","l","i","m","i","t">>
\* "retry-after"
hRetryAfter ==
    <<"r","e","t","r","y","-","a","f","t","e","r">>
\* "ratelimit-limit"
hRatelimitLimit ==
    <<"r","a","t","e","l","i","m","i","t","-","l","i","m","i","t">>
\* "ratelimit-remaining"
hRatelimitRemaining ==
    <<"r","a","t","e","l","i","m","i","t","-","r","e","m","a","i","n","i","n","g">>
\* "ratelimit-reset"
hRatelimitReset ==
    <<"r","a","t","e","l","i","m","i","t","-","r","e","s","e","t">>

(***************************************************************************)
(* Characters and the functions of package strings / strconv / fmt that    *)
(* the source calls.                                                       *)
(***************************************************************************)
LowerLetters ==
    <<"a","b","c","d","e","f","g","h","i","j","k","l","m",
      "n","o","p","q","r","s","t","u","v","w","x","y","z">>

UpperLetters ==
    <<"A","B","C","D","E","F","G","H","I","J","K","L","M",
      "N","O","P","Q","R","S","T","U","V","W","X","Y","Z">>

DigitChars ==
    <<"0","1","2","3","4","5","6","7","8","9">>

Range(f) ==
    { f[i] : i \in DOMAIN f }

IsLower(c) ==
    c \in Range(LowerLetters)

IsUpper(c) ==
    c \in Range(UpperLetters)

IsLetter(c) ==
    IsLower(c) \/ IsUpper(c)

IsDigit(c) ==
    c \in Range(DigitChars)

\* unicode.IsSpace on the ASCII range: '\t', '\n', '\v', '\f', '\r', ' '.
IsSpace(c) ==
    c \in {" ", "\t", "\n", "\r", "\f"}

\* ASCII control bytes (< 0x20, 0x7f) that occur in the model's inputs.
IsCTL(c) ==
    c \in {"\t", "\n", "\r", "\f"}

\* The byte 0xFF, which is not valid UTF-8, as one element of a Go string.
InvalidByte ==
    "xFF"

\* U+FFFD, the Unicode replacement character.
ReplacementChar ==
    "�"

\* The number of bytes of a character in UTF-8.  Every character of the
\* model is ASCII but "é" (U+00E9), which takes two bytes, and U+FFFD,
\* which takes three.
CharBytes(c) ==
    IF c = "é" THEN 2 ELSE IF c = ReplacementChar THEN 3 ELSE 1

\* len(s): the length of a string in bytes.
ByteLen(s) ==
    Len(s) + Cardinality({ i \in DOMAIN s : CharBytes(s[i]) = 2 })
           + 2 * Cardinality({ i \in DOMAIN s : CharBytes(s[i]) = 3 })

IndexIn(seq, c) ==
    CHOOSE i \in DOMAIN seq : seq[i] = c

ToUpperChar(c) ==
    IF IsLower(c) THEN UpperLetters[IndexIn(LowerLetters, c)] ELSE c

ToLowerChar(c) ==
    IF IsUpper(c) THEN LowerLetters[IndexIn(UpperLetters, c)] ELSE c

DigitVal(c) ==
    IndexIn(DigitChars, c) - 1

\* s[i:j] of Go, 0-based half-open, as the 1-based SubSeq(s, i+1, j).
Slice(s, i, j) ==
    SubSeq(s, i + 1, j)

HasPrefix(s, prefix) ==
    /\ Len(s) >= Len(prefix)
    /\ SubSeq(s, 1, Len(prefix)) = prefix

HasSuffix(s, suffix) ==
    /\ Len(s) >= Len(suffix)
    /\ SubSeq(s, Len(s) - Len(suffix) + 1, Len(s)) = suffix

\* strings.Contains(s, substr)
Contains(s, substr) ==
    \E i \in 0..(Len(s) - Len(substr)) : SubSeq(s, i + 1, i + Len(substr)) = substr

\* strings.TrimSpace(s): leading and trailing white space removed.
TrimSpace(s) ==
    LET nonSpace == { i \in DOMAIN s : ~IsSpace(s[i]) }
    IN  IF nonSpace = {} THEN <<>>
        ELSE LET lo == CHOOSE i \in nonSpace : \A j \in nonSpace : i <= j
                 hi == CHOOSE i \in nonSpace : \A j \in nonSpace : i >= j
             IN  SubSeq(s, lo, hi)

\* strings.TrimRight(s, cutset) for a one-character cutset.
TrimRight(s, cutset) ==
    LET keep == { i \in DOMAIN s : s[i] # cutset[1] }
    IN  IF keep = {} THEN <<>>
        ELSE SubSeq(s, 1, CHOOSE i \in keep : \A j \in keep : i >= j)

\* strings.Split(s, sep) for a one-character separator: the pieces between
\* the occurrences of sep, in order (n occurrences give n+1 pieces).
Split(s, sep) ==
    LET cuts == { i \in DOMAIN s : s[i] = sep[1] }
        n == Cardinality(cuts)
        \* position of the k-th separator; 0 before the first, Len(s)+1 after the last
        pos(k) == IF k = 0 THEN 0
                  ELSE IF k = n + 1 THEN Len(s) + 1
                  ELSE CHOOSE i \in cuts : Cardinality({ j \in cuts : j <= i }) = k
    IN  [ k \in 1..(n + 1) |-> SubSeq(s, pos(k - 1) + 1, pos(k) - 1) ]

\* The decimal digits of a natural number.
RECURSIVE NatDigits(_)
NatDigits(n) ==
    IF n < 10 THEN << DigitChars[n + 1] >>
    ELSE Append(NatDigits(n \div 10), DigitChars[(n % 10) + 1])

\* fmt.Sprintf("%d", n)
Itoa(n) ==
    IF n < 0 THEN <<"-">> \o NatDigits(-n) ELSE NatDigits(n)

RECURSIVE DigitsValue(_)
DigitsValue(ds) ==
    IF ds = <<>> THEN 0
    ELSE 10 * DigitsValue(SubSeq(ds, 1, Len(ds) - 1)) + DigitVal(ds[Len(ds)])

\* strconv.Atoi / strconv.ParseInt(s, 10, 64): an optional sign followed by
\* one or more decimal digits and nothing else; anything else is an error.
AtoiOK(s) ==
    LET body == IF s # <<>> /\ s[1] \in {"+", "-"} THEN Tail(s) ELSE s
    IN  /\ body # <<>>
        /\ \A i \in DOMAIN body : IsDigit(body[i])

AtoiVal(s) ==
    LET neg == s[1] = "-"
        body == IF s[1] \in {"+", "-"} THEN Tail(s) ELSE s
    IN  IF neg THEN -DigitsValue(body) ELSE DigitsValue(body)


(***************************************************************************)
(* email.go: the Email model and its validation.                           *)
(***************************************************************************)
\* A body (Email.HTML, Email.Text) is a sequence of runs [ch, n]: the
\* character ch repeated n >= 1 times.
\* utf8.RuneCountInString(b): the length of a body in characters.
BulkLenRunes(b) ==
    LET RECURSIVE Sum(_)
        Sum(i) == IF i = 0 THEN 0 ELSE b[i].n + Sum(i - 1)
    IN  Sum(Len(b))

\* len(b): the length of a body in bytes.
BulkLen(b) ==
    LET RECURSIVE Sum(_)
        Sum(i) == IF i = 0 THEN 0 ELSE b[i].n * CharBytes(b[i].ch) + Sum(i - 1)
    IN  Sum(Len(b))

\* strings.TrimSpace(b) == "" for a run-length encoded body.
BulkIsBlank(b) ==
    \A i \in DOMAIN b : IsSpace(b[i].ch)

\* const MaxContentSize = 10 * 1024 * 1024
MaxContentSize ==
    10 * 1024 * 1024

\* len(email) > 254 in isValidEmail
MaxEmailLen ==
    254

\* [a-zA-Z0-9._%+-]
IsLocalChar(c) ==
    IsLetter(c) \/ IsDigit(c) \/ c \in {".", "_", "%", "+", "-"}

\* [a-zA-Z0-9.-]
IsDomainChar(c) ==
    IsLetter(c) \/ IsDigit(c) \/ c \in {".", "-"}

\* emailRegex.MatchString(s) for
\*   ^[a-zA-Z0-9._%+-]+@[a-zA-Z0-9.-]+\.[a-zA-Z]{2,}$
\* i is the position of '@', j the position of the '.' before the final label.
emailRegexMatch(s) ==
    \E i \in 2..Len(s) : \E j \in (i + 2)..(Len(s) - 2) :
        /\ s[i] = "@"
        /\ s[j] = "."
        /\ \A k \in 1..(i - 1) : IsLocalChar(s[k])
        /\ \A k \in (i + 1)..(j - 1) : IsDomainChar(s[k])
        /\ \A k \in (j + 1)..Len(s) : IsLetter(s[k])

\* isValidEmail with len(email) >= 254 for len(email) > 254.
isValidEmailOffByOne(emailArg) ==
    LET email == TrimSpace(emailArg)
        parts == Split(email, sAt)
        localPart == parts[1]
        domainPart == parts[2]
        domainLabels == Split(domainPart, sDot)
    IN  IF ByteLen(email) = 0 \/ ByteLen(email) >= MaxEmailLen THEN FALSE
        ELSE IF ~emailRegexMatch(email) THEN FALSE
        ELSE IF Len(parts) # 2 THEN FALSE
        ELSE IF \/ HasPrefix(localPart, sDot)
                \/ HasSuffix(localPart, sDot)
                \/ Contains(localPart, sDotDot) THEN FALSE
        ELSE IF \/ HasPrefix(domainPart, sHyphen)
                \/ HasSuffix(domainPart, sHyphen)
                \/ HasPrefix(domainPart, sDot)
                \/ HasSuffix(domainPart, sDot)
                \/ Contains(domainPart, sDotDot) THEN FALSE
        ELSE IF Len(domainLabels) < 2 THEN FALSE
        ELSE \A l \in DOMAIN domainLabels :
                ~ \/ HasPrefix(domainLabels[l], sHyphen)
                  \/ HasSuffix(domainLabels[l], sHyphen)
                  \/ Len(domainLabels[l]) = 0

\* isValidEmail without the checks of the domain labels.
isValidEmailNoLabels(emailArg) ==
    LET email == TrimSpace(emailArg)
        parts == Split(email, sAt)
        localPart == parts[1]
        domainPart == parts[2]
        domainLabels == Split(domainPart, sDot)
    IN  IF ByteLen(email) = 0 \/ ByteLen(email) > MaxEmailLen THEN FALSE
        ELSE IF ~emailRegexMatch(email) THEN FALSE
        ELSE IF Len(parts) # 2 THEN FALSE
        ELSE IF \/ HasPrefix(localPart, sDot)
                \/ HasSuffix(localPart, sDot)
                \/ Contains(localPart, sDotDot) THEN FALSE
        ELSE IF \/ HasPrefix(domainPart, sHyphen)
                \/ HasSuffix(domainPart, sHyphen)
                \/ HasPrefix(domainPart, sDot)
                \/ HasSuffix(domainPart, sDot)
                \/ Contains(domainPart, sDotDot) THEN FALSE
        ELSE TRUE

isValidEmail(emailArg) ==
    LET email == TrimSpace(emailArg)
        parts == Split(email, sAt)
        localPart == parts[1]
        domainPart == parts[2]
        domainLabels == Split(domainPart, sDot)
    IN  IF ByteLen(email) = 0 \/ ByteLen(email) > MaxEmailLen THEN FALSE
        ELSE IF ~emailRegexMatch(email) THEN FALSE
        ELSE IF Len(parts) # 2 THEN FALSE
        ELSE IF \/ HasPrefix(localPart, sDot)
                \/ HasSuffix(localPart, sDot)
                \/ Contains(localPart, sDotDot) THEN FALSE
        ELSE IF \/ HasPrefix(domainPart, sHyphen)
                \/ HasSuffix(domainPart, sHyphen)
                \/ HasPrefix(domainPart, sDot)
                \/ HasSuffix(domainPart, sDot)
                \/ Contains(domainPart, sDotDot) THEN FALSE
        ELSE IF Len(domainLabels) < 2 THEN FALSE
        ELSE \A l \in DOMAIN domainLabels :
                ~ \/ HasPrefix(domainLabels[l], sHyphen)
                  \/ HasSuffix(domainLabels[l], sHyphen)
                  \/ Len(domainLabels[l]) = 0

\* The nil of a Go pointer or error value.
NIL ==
    [type |-> "nil"]

NewEmail(from, to, subject) ==
    [From |-> from, To |-> to, Subject |-> subject, HTML |-> <<>>, Text |-> <<>>]

NewHTMLEmail(from, to, subject, html) ==
    [From |-> from, To |-> to, Subject |-> subject, HTML |-> html, Text |-> <<>>]

NewTextEmail(from, to, subject, text) ==
    [From |-> from, To |-> to, Subject |-> subject, HTML |-> <<>>, Text |-> text]

NewEmailWithBoth(from, to, subject, html, text) ==
    [From |-> from, To |-> to, Subject |-> subject, HTML |-> html, Text |-> text]

(***************************************************************************)
(* errors.go: the error taxonomy.  An error value is a record whose type   *)
(* field names the variant; Message, Code and ContextMap are BaseError's.  *)
(***************************************************************************)
StatusAccepted ==
    202

StatusBadRequest ==
    400

StatusUnauthorized ==
    401

StatusPaymentRequired ==
    402

StatusForbidden ==
    403

StatusRequestTimeout ==
    408

StatusUnprocessableEntity ==
    422

StatusTooManyRequests ==
    429

NewValidationError(message, errors) ==
    [type |-> "ValidationError",
     Message |-> message,
     Code |-> StatusBadRequest,
     ContextMap |-> [error_type |-> "validation_error", errors |-> errors],
     Errors |-> errors]

\* NewAuthenticationError without the default message.
NewAuthenticationErrorNoDefault(messageArg) ==
    [type |-> "AuthenticationError",
     Message |-> messageArg,
     Code |-> StatusUnauthorized,
     ContextMap |-> [error_type |-> "authentication_error"]]

NewAuthenticationError(messageArg) ==
    LET message == IF messageArg = sEmpty THEN sInvalidAPIKey ELSE messageArg
    IN  [type |-> "AuthenticationError",
         Message |-> message,
         Code |-> StatusUnauthorized,
         ContextMap |-> [error_type |-> "authentication_error"]]

NewAccountSuspendedError(messageArg, reason) ==
    LET message == IF messageArg = sEmpty THEN sAccountSuspended ELSE messageArg
    IN  [type |-> "AccountSuspendedError",
         Message |-> message,
         Code |-> StatusForbidden,
         ContextMap |-> [error_type |-> "account_suspended", reason |-> reason],
         Reason |-> reason]

NewSubscriptionError(messageArg, errorType) ==
    LET message == IF messageArg = sEmpty THEN sSubscriptionError ELSE messageArg
    IN  [type |-> "SubscriptionError",
         Message |-> message,
         Code |-> StatusPaymentRequired,
         ContextMap |-> [error_type |-> "subscription_error",
                         subscription_type |-> errorType],
         ErrorType |-> errorType]

NewRateLimitError(messageArg, retryAfter, limit, remaining, reset) ==
    LET message == IF messageArg = sEmpty
                   THEN sRateLimitExceeded \o Itoa(retryAfter) \o sSecondsDot
                   ELSE messageArg
    IN  [type |-> "RateLimitError",
         Message |-> message,
         Code |-> StatusTooManyRequests,
         ContextMap |-> [error_type |-> "rate_limit_exceeded",
                         retry_after |-> retryAfter,
                         limit |-> limit,
                         remaining |-> remaining,
                         reset |-> reset],
         RetryAfter |-> retryAfter,
         Limit |-> limit,
         Remaining |-> remaining,
         Reset |-> reset]

NewNetworkError(messageArg, url) ==
    LET message == IF messageArg = sEmpty THEN sNetworkErrorOccurred ELSE messageArg
    IN  [type |-> "NetworkError",
         Message |-> message,
         Code |-> 0,
         ContextMap |-> [error_type |-> "network_error", url |-> url],
         URL |-> url]

NewConnectionTimeoutError(timeout, url) ==
    LET message == sConnectionTimeoutAfter \o Itoa(timeout) \o sSeconds
    IN  [type |-> "NetworkError",
         Message |-> message,
         Code |-> StatusRequestTimeout,
         ContextMap |-> [error_type |-> "connection_timeout",
                         timeout |-> timeout,
                         url |-> url],
         URL |-> url]

NewHTTPError(statusCode, messageArg, url, responseBody) ==
    LET message == IF messageArg = sEmpty
                   THEN sHTTP \o Itoa(statusCode) \o sError
                   ELSE messageArg
    IN  [type |-> "HTTPError",
         Message |-> message,
         Code |-> statusCode,
         ContextMap |-> [error_type |-> "http_error",
                         url |-> url,
                         response_body |-> responseBody],
         URL |-> url,
         ResponseBody |-> responseBody]

\* An Error() method that is BaseError.Error for every variant.
ErrorStringPlain(e) ==
    e.Message

\* The Error() method: BaseError.Error, overridden by ValidationError.Error.
ErrorString(e) ==
    IF e.type = "ValidationError"
    THEN IF e.Message # sEmpty THEN e.Message ELSE sValidationFailed
    ELSE e.Message

\* The StatusCode() method.
StatusCodeOf(e) ==
    e.Code

(***************************************************************************)
(* Email.Validate (email.go).  errors is the map[string][]string the       *)
(* method fills: a function from the keys that got a message to the list   *)
(* of their messages.                                                      *)
(***************************************************************************)
\* ValidateFieldErrors with len(...) >= MaxContentSize for the two size tests.
ValidateFieldErrorsExclusive(e) ==
    [from |-> IF TrimSpace(e.From) = sEmpty THEN << sFromRequired >>
              ELSE IF ~isValidEmail(e.From) THEN << sFromInvalid >>
              ELSE <<>>,
     to |-> IF TrimSpace(e.To) = sEmpty THEN << sToRequired >>
            ELSE IF ~isValidEmail(e.To) THEN << sToInvalid >>
            ELSE <<>>,
     subject |-> IF TrimSpace(e.Subject) = sEmpty THEN << sSubjectRequired >>
                 ELSE <<>>,
     content |-> IF BulkIsBlank(e.HTML) /\ BulkIsBlank(e.Text)
                 THEN << sContentRequired >>
                 ELSE <<>>,
     html |-> IF BulkLen(e.HTML) >= MaxContentSize THEN << sHTMLTooLarge >>
              ELSE <<>>,
     text |-> IF BulkLen(e.Text) >= MaxContentSize THEN << sTextTooLarge >>
              ELSE <<>>]

ValidateFieldErrors(e) ==
    [from |-> IF TrimSpace(e.From) = sEmpty THEN << sFromRequired >>
              ELSE IF ~isValidEmail(e.From) THEN << sFromInvalid >>
              ELSE <<>>,
     to |-> IF TrimSpace(e.To) = sEmpty THEN << sToRequired >>
            ELSE IF ~isValidEmail(e.To) THEN << sToInvalid >>
            ELSE <<>>,
     subject |-> IF TrimSpace(e.Subject) = sEmpty THEN << sSubjectRequired >>
                 ELSE <<>>,
     content |-> IF BulkIsBlank(e.HTML) /\ BulkIsBlank(e.Text)
                 THEN << sContentRequired >>
                 ELSE <<>>,
     html |-> IF BulkLen(e.HTML) > MaxContentSize THEN << sHTMLTooLarge >>
              ELSE <<>>,
     text |-> IF BulkLen(e.Text) > MaxContentSize THEN << sTextTooLarge >>
              ELSE <<>>]

\* ValidateErrors when Validate stops at the first field that fails.
ValidateErrorsFirstOnly(e) ==
    LET all == ValidateFieldErrors(e)
        order == << "from", "to", "subject", "content", "html", "text" >>
        failing == { i \in DOMAIN order : all[order[i]] # <<>> }
        first == CHOOSE i \in failing : \A o \in failing : i <= o
    IN  IF failing = {} THEN << >>
        ELSE [ k \in { order[first] } |-> all[k] ]

\* The errors map when Validate reaches its final test: only the keys that
\* were appended to exist in the map.
ValidateErrors(e) ==
    LET all == ValidateFieldErrors(e)
    IN  [ k \in { f \in DOMAIN all : all[f] # <<>> } |-> all[k] ]

Validate(e) ==
    LET errors == ValidateErrors(e)
    IN  IF Cardinality(DOMAIN errors) > 0
        THEN NewValidationError(sEmailValidationFailed, errors)
        ELSE NIL

(***************************************************************************)
(* encoding/json as the source uses it.  A JSON document is                *)
(*   [kind |-> "invalid", text |-> s]   bytes that are not a JSON value    *)
(*   [kind |-> "null"]                  the JSON value null                *)
(*   [kind |-> "array"]                 a JSON value that is no object     *)
(*   [kind |-> "object", fields |-> f]  an object; f maps each key present *)
(*                                      to its value                      *)
(* and a JSON value is [t |-> "string"|"bool"|"number", v |-> x]           *)
(* or [t |-> "null"].                                                      *)
(***************************************************************************)
JString(s) ==
    [t |-> "string", v |-> s]

JBool(b) ==
    [t |-> "bool", v |-> b]

JNumber(n) ==
    [t |-> "number", v |-> n]

JNull ==
    [t |-> "null"]

\* The JSON type a Go struct field of the response structs accepts:
\* Success bool, Message string, Error string.
FieldJSONType ==
    [success |-> "bool", message |-> "string", error |-> "string"]

\* The zero values of the fields.
FieldZero ==
    [success |-> FALSE, message |-> sEmpty, error |-> sEmpty]

\* A key of the document decodes into the struct when the struct has the
\* field, the key is present and its value has the field's type.
FieldDecodes(body, targetFields, k) ==
    /\ k \in targetFields
    /\ body.kind = "object"
    /\ k \in DOMAIN body.fields
    /\ body.fields[k].t = FieldJSONType[k]

\* A key whose value has the wrong type for its field (an
\* UnmarshalTypeError); null is accepted by every field and changes nothing.
FieldMismatch(body, targetFields, k) ==
    /\ k \in targetFields
    /\ body.kind = "object"
    /\ k \in DOMAIN body.fields
    /\ body.fields[k].t \notin {FieldJSONType[k], "null"}

\* json.Unmarshal(body, &v) for a zero struct v with the fields
\* targetFields.  err: whether an error is returned.  val: v afterwards.
\* A syntax error is found before anything is stored; a value of the wrong
\* type is skipped, the remaining fields are still decoded, and the first
\* such error is returned at the end.
Unmarshal(body, targetFields) ==
    [err |-> \/ body.kind \in {"invalid", "array"}
             \/ \E k \in targetFields : FieldMismatch(body, targetFields, k),
     val |-> [ k \in DOMAIN FieldZero |->
                 IF FieldDecodes(body, targetFields, k)
                 THEN body.fields[k].v
                 ELSE FieldZero[k] ]]

EmailResponseFields ==
    {"success", "message", "error"}

MessageErrorFields ==
    {"message", "error"}

MessageFields ==
    {"message"}

(***************************************************************************)
(* A JSON text that json.Marshal writes is kept as a document whose string *)
(* values are the characters written between the quotes:                   *)
(* [t |-> "text", v |-> chars], and for a body [t |-> "bulk", v |-> runs]  *)
(* with runs of [text |-> chars, n |-> count].                             *)
(***************************************************************************)
\* json.Marshal, one character of a string value: the quote and the
\* backslash are escaped, a line feed is written as backslash n, the
\* characters <, > and & are written as the escapes u003c, u003e and u0026,
\* a byte that is not valid UTF-8 is written as the escape ufffd, and
\* everything else is written as it is.
EncodeChar(c) ==
    IF c = "\"" THEN <<"\\", "\"">>
    ELSE IF c = "\\" THEN <<"\\", "\\">>
    ELSE IF c = "\n" THEN <<"\\", "n">>
    ELSE IF c = "<" THEN <<"\\", "u", "0", "0", "3", "c">>
    ELSE IF c = ">" THEN <<"\\", "u", "0", "0", "3", "e">>
    ELSE IF c = "&" THEN <<"\\", "u", "0", "0", "2", "6">>
    ELSE IF c = InvalidByte THEN <<"\\", "u", "f", "f", "f", "d">>
    ELSE <<c>>

\* json.Marshal of a string, without the quotes around it.
RECURSIVE EncodeString(_)
EncodeString(s) ==
    IF s = <<>> THEN <<>>
    ELSE EncodeChar(Head(s)) \o EncodeString(Tail(s))

\* The characters that json.Unmarshal reads for the escapes uXXXX.
UnicodeEscapes ==
    { [hex |-> <<"0", "0", "3", "c">>, ch |-> "<"],
      [hex |-> <<"0", "0", "3", "e">>, ch |-> ">"],
      [hex |-> <<"0", "0", "2", "6">>, ch |-> "&"],
      [hex |-> <<"f", "f", "f", "d">>, ch |-> ReplacementChar] }

UnicodeEscape(hex) ==
    (CHOOSE e \in UnicodeEscapes : e.hex = hex).ch

\* A decoder that takes the characters between the quotes as they are.
DecodeStringRaw(text) ==
    text

\* json.Unmarshal of the characters between the quotes of a string value.
RECURSIVE DecodeString(_)
DecodeString(text) ==
    IF text = <<>> THEN <<>>
    ELSE IF text[1] # "\\" THEN <<text[1]>> \o DecodeString(Tail(text))
    ELSE IF text[2] = "n" THEN <<"\n">> \o DecodeString(Slice(text, 2, Len(text)))
    ELSE IF text[2] = "u"
         THEN <<UnicodeEscape(Slice(text, 2, 6))>> \o DecodeString(Slice(text, 6, Len(text)))
    ELSE <<text[2]>> \o DecodeString(Slice(text, 2, Len(text)))

\* A string value of a JSON text.
JText(chars) ==
    [t |-> "text", v |-> chars]

\* json.Marshal of a body: each run of n characters is written as n
\* times what json.Marshal writes for the character.
EncodeBulk(b) ==
    [ i \in DOMAIN b |-> [text |-> EncodeChar(b[i].ch), n |-> b[i].n] ]

\* A json.Marshal(email) that writes html and text even when empty.
MarshalEmailAllFields(email) ==
    [kind |-> "object",
     fields |-> [from |-> JText(EncodeString(email.From)),
                 to |-> JText(EncodeString(email.To)),
                 subject |-> JText(EncodeString(email.Subject)),
                 html |-> [t |-> "bulk", v |-> EncodeBulk(email.HTML)],
                 text |-> [t |-> "bulk", v |-> EncodeBulk(email.Text)]]]

\* json.Marshal(email): from, to and subject always; html and text only
\* when non-empty (omitempty).
MarshalEmail(email) ==
    LET always == [from |-> JText(EncodeString(email.From)),
                   to |-> JText(EncodeString(email.To)),
                   subject |-> JText(EncodeString(email.Subject))]
        optional == [html |-> email.HTML, text |-> email.Text]
        present == { k \in DOMAIN optional : optional[k] # <<>> }
    IN  [kind |-> "object",
         fields |-> [ k \in DOMAIN always \cup present |->
                        IF k \in DOMAIN always THEN always[k]
                        ELSE [t |-> "bulk", v |-> EncodeBulk(optional[k])] ]]

(***************************************************************************)
(* net/http as the source uses it: header keys, the request, the error of  *)
(* Do.                                                                     *)
(***************************************************************************)
\* textproto.CanonicalMIMEHeaderKey for a key of letters, digits and '-':
\* the first letter and every letter after a '-' in upper case, the rest in
\* lower case.  A key with any other character is returned unchanged.
CanonicalHeaderKey(key) ==
    IF \A i \in DOMAIN key : IsLetter(key[i]) \/ IsDigit(key[i]) \/ key[i] = "-"
    THEN [ i \in DOMAIN key |->
             IF i = 1 \/ key[i - 1] = "-" THEN ToUpperChar(key[i])
             ELSE ToLowerChar(key[i]) ]
    ELSE key

\* The http.Header of a response read by http.Client: the header lines on
\* the wire, a sequence of [name, value], stored under their canonical keys,
\* each key with its values in order.
ReadHeader(wire) ==
    LET keys == { CanonicalHeaderKey(wire[i].name) : i \in DOMAIN wire }
        valuesOf(k) ==
            LET RECURSIVE Collect(_)
                Collect(i) ==
                    IF i = 0 THEN <<>>
                    ELSE IF CanonicalHeaderKey(wire[i].name) = k
                         THEN Append(Collect(i - 1), wire[i].value)
                         ELSE Collect(i - 1)
            IN  Collect(Len(wire))
    IN  [ k \in keys |-> valuesOf(k) ]

\* Header.Get replaced by an index with the key as written
\* (header["retry-after"]).
HeaderGetExact(header, key) ==
    IF key \in DOMAIN header /\ Len(header[key]) > 0 THEN header[key][1] ELSE sEmpty

\* http.Header.Get(key): the first value stored under the canonical form of
\* key, "" when there is none.
HeaderGet(header, key) ==
    LET k == CanonicalHeaderKey(key)
    IN  IF k \in DOMAIN header /\ Len(header[k]) > 0 THEN header[k][1] ELSE sEmpty

\* http.NewRequest fails when url.Parse rejects the URL.  Of url.Parse's
\* rejections the two that the model's URLs can meet: an ASCII control
\* character anywhere, and a ':' as the first character ("missing protocol
\* scheme").
NewRequestFails(url) ==
    \/ \E i \in DOMAIN url : IsCTL(url[i])
    \/ (Len(url) > 0 /\ url[1] = ":")

\* The text of the error http.Client.Do returns, a *url.Error:
\*   Post "<url>": <cause>
DoErrorText(url, cause) ==
    <<"P","o","s","t"," ","\"">> \o url \o <<"\"",":"," ">> \o cause

(***************************************************************************)
(* config.go                                                               *)
(***************************************************************************)
\* time.Duration values are counted in milliseconds.
Second ==
    1000

DefaultTimeout ==
    30 * Second

DefaultConnectTimeout ==
    10 * Second

NewConfig ==
    [APIKey |-> sEmpty,
     BaseURL |-> DefaultBaseURL,
     Timeout |-> DefaultTimeout,
     ConnectTimeout |-> DefaultConnectTimeout,
     Debug |-> FALSE]

\* A Validate without the check of ConnectTimeout.
ConfigValidateNoConnect(c) ==
    IF c.APIKey = sEmpty THEN "API key is required"
    ELSE IF c.BaseURL = sEmpty THEN "Base URL is required"
    ELSE IF c.Timeout <= 0 THEN "Timeout must be greater than 0"
    ELSE "nil"

\* Config.Validate: nil when the configuration is acceptable.
ConfigValidate(c) ==
    IF c.APIKey = sEmpty THEN "API key is required"
    ELSE IF c.BaseURL = sEmpty THEN "Base URL is required"
    ELSE IF c.Timeout <= 0 THEN "Timeout must be greater than 0"
    ELSE IF c.ConnectTimeout <= 0 THEN "Connect timeout must be greater than 0"
    ELSE "nil"

GetUserAgent(c) ==
    sUserAgentPrefix \o SDKVersion

\* int(d.Seconds()): the whole seconds of a duration, truncated toward zero.
DurationSeconds(d) ==
    IF d >= 0 THEN d \div Second ELSE -((-d) \div Second)

\* strconv.ParseBool(s): the twelve spellings it accepts; anything else is
\* an error.
ParseBoolTrue ==
    { <<"1">>, <<"t">>, <<"T">>, <<"T","R","U","E">>, <<"t","r","u","e">>,
      <<"T","r","u","e">> }

ParseBoolFalse ==
    { <<"0">>, <<"f">>, <<"F">>, <<"F","A","L","S","E">>, <<"f","a","l","s","e">>,
      <<"F","a","l","s","e">> }

ParseBool(s) ==
    [ok |-> s \in ParseBoolTrue \cup ParseBoolFalse, val |-> s \in ParseBoolTrue]

\* The units of time.ParseDuration that are whole milliseconds, in
\* milliseconds.  (The units "ns", "us" and "µs" are finer than the model's
\* durations and are not among its inputs.)
DurationUnits ==
    [ u \in { <<"m","s">>, <<"s">>, <<"m">>, <<"h">> } |->
        IF u = <<"m","s">> THEN 1
        ELSE IF u = <<"s">> THEN Second
        ELSE IF u = <<"m">> THEN 60 * Second
        ELSE 60 * 60 * Second ]

\* The number of characters at the front of s that satisfy digit / that
\* belong to a unit (neither a digit nor '.').
LeadingDigits(s) ==
    LET stops == { i \in DOMAIN s : ~IsDigit(s[i]) }
    IN  IF stops = {} THEN Len(s)
        ELSE (CHOOSE i \in stops : \A j \in stops : i <= j) - 1

LeadingUnit(s) ==
    LET stops == { i \in DOMAIN s : IsDigit(s[i]) \/ s[i] = "." }
    IN  IF stops = {} THEN Len(s)
        ELSE (CHOOSE i \in stops : \A j \in stops : i <= j) - 1

RECURSIVE Pow10(_)
Pow10(n) ==
    IF n = 0 THEN 1 ELSE 10 * Pow10(n - 1)

\* The loop of time.ParseDuration over ([0-9]*(\.[0-9]*)?[a-z]+)+ : the
\* sum of the groups of s, each a number, with or without a fraction,
\* followed by a unit.
RECURSIVE ParseDurationGroups(_)
ParseDurationGroups(s) ==
    IF s = <<>> THEN [ok |-> TRUE, d |-> 0]
    ELSE LET n1 == LeadingDigits(s)
             whole == DigitsValue(SubSeq(s, 1, n1))
             rest1 == SubSeq(s, n1 + 1, Len(s))
             dotted == rest1 # <<>> /\ rest1[1] = "."
             afterDot == IF dotted THEN Tail(rest1) ELSE rest1
             n2 == IF dotted THEN LeadingDigits(afterDot) ELSE 0
             frac == DigitsValue(SubSeq(afterDot, 1, n2))
             rest2 == SubSeq(afterDot, n2 + 1, Len(afterDot))
             nu == LeadingUnit(rest2)
             unit == SubSeq(rest2, 1, nu)
             more == ParseDurationGroups(SubSeq(rest2, nu + 1, Len(rest2)))
         IN  IF n1 = 0 /\ n2 = 0 THEN [ok |-> FALSE, d |-> 0]
             ELSE IF unit \notin DOMAIN DurationUnits THEN [ok |-> FALSE, d |-> 0]
             ELSE IF ~more.ok THEN [ok |-> FALSE, d |-> 0]
             ELSE [ok |-> TRUE,
                   d |-> whole * DurationUnits[unit]
                         + ((frac * DurationUnits[unit]) \div Pow10(n2))
                         + more.d]

\* time.ParseDuration(s): [-+]?([0-9]*(\.[0-9]*)?[a-z]+)+, and "0".
ParseDuration(s) ==
    LET signed == s # <<>> /\ s[1] \in {"+", "-"}
        neg == s # <<>> /\ s[1] = "-"
        body == IF signed THEN Tail(s) ELSE s
        groups == ParseDurationGroups(body)
    IN  IF body = <<"0">> THEN [ok |-> TRUE, d |-> 0]
        ELSE IF body = <<>> THEN [ok |-> FALSE, d |-> 0]
        ELSE IF ~groups.ok THEN [ok |-> FALSE, d |-> 0]
        ELSE [ok |-> TRUE, d |-> IF neg THEN -groups.d ELSE groups.d]

\* A NewConfigFromEnv that stores the zero duration when POODLE_TIMEOUT
\* cannot be parsed.
NewConfigFromEnvZeroOnError(env) ==
    LET timeout == ParseDuration(env.POODLE_TIMEOUT)
        connectTimeout == ParseDuration(env.POODLE_CONNECT_TIMEOUT)
        debug == ParseBool(env.POODLE_DEBUG)
    IN  [APIKey |-> IF env.POODLE_API_KEY # sEmpty THEN env.POODLE_API_KEY
                    ELSE NewConfig.APIKey,
         BaseURL |-> IF env.POODLE_BASE_URL # sEmpty THEN env.POODLE_BASE_URL
                     ELSE NewConfig.BaseURL,
         Timeout |-> IF env.POODLE_TIMEOUT # sEmpty THEN timeout.d
                     ELSE NewConfig.Timeout,
         ConnectTimeout |->
             IF env.POODLE_CONNECT_TIMEOUT # sEmpty /\ connectTimeout.ok
             THEN connectTimeout.d
             ELSE NewConfig.ConnectTimeout,
         Debug |-> IF env.POODLE_DEBUG # sEmpty /\ debug.ok THEN debug.val
                   ELSE NewConfig.Debug]

\* NewConfigFromEnv: env gives what os.Getenv returns for each variable
\* ("" for one that is not set).
NewConfigFromEnv(env) ==
    LET timeout == ParseDuration(env.POODLE_TIMEOUT)
        connectTimeout == ParseDuration(env.POODLE_CONNECT_TIMEOUT)
        debug == ParseBool(env.POODLE_DEBUG)
    IN  [APIKey |-> IF env.POODLE_API_KEY # sEmpty THEN env.POODLE_API_KEY
                    ELSE NewConfig.APIKey,
         BaseURL |-> IF env.POODLE_BASE_URL # sEmpty THEN env.POODLE_BASE_URL
                     ELSE NewConfig.BaseURL,
         Timeout |-> IF env.POODLE_TIMEOUT # sEmpty /\ timeout.ok THEN timeout.d
                     ELSE NewConfig.Timeout,
         ConnectTimeout |->
             IF env.POODLE_CONNECT_TIMEOUT # sEmpty /\ connectTimeout.ok
             THEN connectTimeout.d
             ELSE NewConfig.ConnectTimeout,
         Debug |-> IF env.POODLE_DEBUG # sEmpty /\ debug.ok THEN debug.val
                   ELSE NewConfig.Debug]

(***************************************************************************)
(* http.go: HTTPClient.  What SendEmail returns is the pair                *)
(* [resp |-> *EmailResponse or NIL, err |-> error or NIL].                 *)
(***************************************************************************)
Return(resp, err) ==
    [resp |-> resp, err |-> err]

EmailResponse(success, message, error) ==
    [type |-> "EmailResponse", Success |-> success, Message |-> message, Error |-> error]

\* parseSuccessResponse returning the response beside the error
\* ("return &response, err").
parseSuccessResponseBoth(body) ==
    LET u == Unmarshal(body, EmailResponseFields)
    IN  IF u.err
        THEN Return(EmailResponse(u.val.success, u.val.message, u.val.error),
                    NewNetworkError(sFailedToParse, sEmpty))
        ELSE Return(EmailResponse(u.val.success, u.val.message, u.val.error), NIL)

\* parseSuccessResponse forcing success to true.
parseSuccessResponseForced(body) ==
    LET u == Unmarshal(body, EmailResponseFields)
    IN  IF u.err
        THEN Return(NIL, NewNetworkError(sFailedToParse, sEmpty))
        ELSE Return(EmailResponse(TRUE, u.val.message, u.val.error), NIL)

parseSuccessResponse(body) ==
    LET u == Unmarshal(body, EmailResponseFields)
    IN  IF u.err
        THEN Return(NIL, NewNetworkError(sFailedToParse, sEmpty))
        ELSE Return(EmailResponse(u.val.success, u.val.message, u.val.error), NIL)

\* parseValidationError adding "details" whether or not error is empty.
parseValidationErrorDetails(body) ==
    LET u == Unmarshal(body, EmailResponseFields)
        apiResponse == u.val
    IN  IF u.err
        THEN NewValidationError(sValidationFailed,
                                [request |-> << sInvalidRequestFormat >>])
        ELSE NewValidationError(apiResponse.message,
                                [request |-> << apiResponse.message >>,
                                 details |-> << apiResponse.error >>])

parseValidationError(body) ==
    LET u == Unmarshal(body, EmailResponseFields)
        apiResponse == u.val
        errors == IF apiResponse.error # sEmpty
                  THEN [request |-> << apiResponse.message >>,
                        details |-> << apiResponse.error >>]
                  ELSE [request |-> << apiResponse.message >>]
    IN  IF u.err
        THEN NewValidationError(sValidationFailed,
                                [request |-> << sInvalidRequestFormat >>])
        ELSE NewValidationError(apiResponse.message, errors)

parseAuthenticationError(body) ==
    LET u == Unmarshal(body, MessageFields)
    IN  IF u.err
        THEN NewAuthenticationError(sInvalidAPIKey)
        ELSE NewAuthenticationError(u.val.message)

\* parseSubscriptionError testing "trial" before "expired".
parseSubscriptionErrorTrialFirst(body) ==
    LET u == Unmarshal(body, MessageErrorFields)
        message == u.val.message
        errorType == IF Contains(message, sTrial) THEN sTrialLimitReached
                     ELSE IF Contains(message, sExpired) THEN sSubscriptionExpired
                     ELSE IF Contains(message, sLimit) THEN sLimitReached
                     ELSE sUnknown
    IN  IF u.err
        THEN NewSubscriptionError(sSubscriptionError, sUnknown)
        ELSE NewSubscriptionError(message, errorType)

parseSubscriptionError(body) ==
    LET u == Unmarshal(body, MessageErrorFields)
        message == u.val.message
        errorType == IF Contains(message, sExpired) THEN sSubscriptionExpired
                     ELSE IF Contains(message, sTrial) THEN sTrialLimitReached
                     ELSE IF Contains(message, sLimit) THEN sLimitReached
                     ELSE sUnknown
    IN  IF u.err
        THEN NewSubscriptionError(sSubscriptionError, sUnknown)
        ELSE NewSubscriptionError(message, errorType)

\* parseAccountSuspendedError with the two arguments exchanged.
parseAccountSuspendedErrorSwapped(body) ==
    LET u == Unmarshal(body, MessageErrorFields)
    IN  IF u.err
        THEN NewAccountSuspendedError(sAccountSuspended, sUnknown)
        ELSE NewAccountSuspendedError(u.val.error, u.val.message)

parseAccountSuspendedError(body) ==
    LET u == Unmarshal(body, MessageErrorFields)
    IN  IF u.err
        THEN NewAccountSuspendedError(sAccountSuspended, sUnknown)
        ELSE NewAccountSuspendedError(u.val.message, u.val.error)

\* One of the four header reads of parseRateLimitError: the header's
\* integer value, 0 when the header is empty or absent or Atoi fails.
HeaderInt(header, key) ==
    LET str == HeaderGet(header, key)
    IN  IF str # sEmpty /\ AtoiOK(str) THEN AtoiVal(str) ELSE 0

\* The error of json.Unmarshal is ignored here: apiResponse holds whatever
\* was decoded.
parseRateLimitError(header, body) ==
    LET apiResponse == Unmarshal(body, MessageErrorFields).val
        retryAfter == HeaderInt(header, hRetryAfter)
        limit == HeaderInt(header, hRatelimitLimit)
        remaining == HeaderInt(header, hRatelimitRemaining)
        reset == HeaderInt(header, hRatelimitReset)
        message == IF apiResponse.message = sEmpty
                   THEN sRateLimitExceeded \o Itoa(retryAfter) \o sSecondsDot
                   ELSE apiResponse.message
    IN  NewRateLimitError(message, retryAfter, limit, remaining, reset)

\* parseGenericError using the decoded message although Unmarshal failed.
parseGenericErrorIgnoringErr(statusCode, body, url) ==
    LET u == Unmarshal(body, MessageErrorFields)
        message == IF u.val.message # sEmpty
                   THEN u.val.message
                   ELSE sHTTP \o Itoa(statusCode) \o sError
    IN  NewHTTPError(statusCode, message, url, body)

parseGenericError(statusCode, body, url) ==
    LET u == Unmarshal(body, MessageErrorFields)
        message == IF ~u.err /\ u.val.message # sEmpty
                   THEN u.val.message
                   ELSE sHTTP \o Itoa(statusCode) \o sError
    IN  NewHTTPError(statusCode, message, url, body)

\* url := strings.TrimRight(c.config.BaseURL, "/") + "/v1/send-email"
RequestURL(config) ==
    TrimRight(config.BaseURL, sSlash) \o sSendEmailPath

\* The request SendEmail builds (http.NewRequest and the four Header.Set).
NewRequest(config, email) ==
    [Method |-> sPOST,
     URL |-> RequestURL(config),
     Header |-> [ContentType |-> sApplicationJSON,
                 Accept |-> sApplicationJSON,
                 Authorization |-> sBearer \o config.APIKey,
                 UserAgent |-> GetUserAgent(config)],
     Body |-> MarshalEmail(email)]

\* SendEmailPrepare without the call of email.Validate.
SendEmailPrepareUnvalidated(config, email) ==
    LET url == RequestURL(config)
    IN  IF NewRequestFails(url)
        THEN [done |-> TRUE, ret |-> Return(NIL, NewNetworkError(sFailedToCreate, url))]
        ELSE [done |-> FALSE, req |-> NewRequest(config, email)]

\* SendEmail up to the call of c.httpClient.Do: either it returns early
\* (done, with what it returns) or it hands the request to the transport.
\* json.Marshal of an Email cannot fail.
SendEmailPrepare(config, email) ==
    LET err == Validate(email)
        url == RequestURL(config)
    IN  IF err # NIL
        THEN [done |-> TRUE, ret |-> Return(NIL, err)]
        ELSE IF NewRequestFails(url)
        THEN [done |-> TRUE, ret |-> Return(NIL, NewNetworkError(sFailedToCreate, url))]
        ELSE [done |-> FALSE, req |-> NewRequest(config, email)]

\* HandleStatus with every 2xx status taken for a success
\* (case statusCode >= 200 && statusCode < 300).
HandleStatusAny2xx(statusCode, header, body, url) ==
    IF statusCode >= 200 /\ statusCode < 300 THEN parseSuccessResponse(body)
    ELSE IF statusCode = StatusBadRequest THEN Return(NIL, parseValidationError(body))
    ELSE IF statusCode = StatusUnauthorized THEN Return(NIL, parseAuthenticationError(body))
    ELSE IF statusCode = StatusPaymentRequired THEN Return(NIL, parseSubscriptionError(body))
    ELSE IF statusCode = StatusForbidden THEN Return(NIL, parseAccountSuspendedError(body))
    ELSE IF statusCode = StatusUnprocessableEntity THEN Return(NIL, parseValidationError(body))
    ELSE IF statusCode = StatusTooManyRequests THEN Return(NIL, parseRateLimitError(header, body))
    ELSE Return(NIL, parseGenericError(statusCode, body, url))

\* The switch on resp.StatusCode.
HandleStatus(statusCode, header, body, url) ==
    IF statusCode = StatusAccepted THEN parseSuccessResponse(body)
    ELSE IF statusCode = StatusBadRequest THEN Return(NIL, parseValidationError(body))
    ELSE IF statusCode = StatusUnauthorized THEN Return(NIL, parseAuthenticationError(body))
    ELSE IF statusCode = StatusPaymentRequired THEN Return(NIL, parseSubscriptionError(body))
    ELSE IF statusCode = StatusForbidden THEN Return(NIL, parseAccountSuspendedError(body))
    ELSE IF statusCode = StatusUnprocessableEntity THEN Return(NIL, parseValidationError(body))
    ELSE IF statusCode = StatusTooManyRequests THEN Return(NIL, parseRateLimitError(header, body))
    ELSE Return(NIL, parseGenericError(statusCode, body, url))

\* SendEmail from the return of c.httpClient.Do.  tr is what the transport
\* gave: [kind |-> "error", text, timeout] when Do returned an error (its
\* Error() and its Timeout(), which SendEmail does not ask for), else
\* [kind |-> "response", StatusCode, Header, ReadOK, Body], ReadOK telling
\* whether io.ReadAll(resp.Body) succeeded.
SendEmailComplete(config, url, tr) ==
    IF tr.kind = "error"
    THEN IF Contains(tr.text, sTimeout)
         THEN Return(NIL, NewConnectionTimeoutError(DurationSeconds(config.Timeout), url))
         ELSE Return(NIL, NewNetworkError(sRequestFailed \o tr.text, url))
    ELSE IF ~tr.ReadOK
    THEN Return(NIL, NewNetworkError(sFailedToRead, url))
    ELSE HandleStatus(tr.StatusCode, tr.Header, tr.Body, url)

(***************************************************************************)
(* models.go: EmailResponse.ToJSON and FromJSON.                           *)
(***************************************************************************)
\* json.Marshal(r) for an EmailResponse: success and message always, error
\* only when non-empty (omitempty).
MarshalEmailResponse(r) ==
    LET keys == {"success", "message"}
                \cup (IF r.Error # sEmpty THEN {"error"} ELSE {})
    IN  [kind |-> "object",
         fields |-> [ k \in keys |->
                        IF k = "success" THEN JBool(r.Success)
                        ELSE IF k = "message" THEN JText(EncodeString(r.Message))
                        ELSE JText(EncodeString(r.Error)) ]]

\* EmailResponse.ToJSON
ToJSON(r) ==
    [json |-> MarshalEmailResponse(r), err |-> "nil"]

\* The values of a JSON text as json.Unmarshal reads them.
ParseJSON(doc) ==
    IF doc.kind # "object" THEN doc
    ELSE [kind |-> "object",
          fields |-> [ k \in DOMAIN doc.fields |->
                         IF doc.fields[k].t = "text"
                         THEN JString(DecodeString(doc.fields[k].v))
                         ELSE doc.fields[k] ]]

\* FromJSON(jsonStr)
FromJSON(doc) ==
    LET u == Unmarshal(ParseJSON(doc), EmailResponseFields)
    IN  IF u.err
        THEN [resp |-> NIL, err |-> "json"]
        ELSE [resp |-> EmailResponse(u.val.success, u.val.message, u.val.error),
              err |-> "nil"]

(***************************************************************************)
(* The inputs the model draws from.                                        *)
(***************************************************************************)
\* From addresses: "a@b.co", "bad" and "".
FromSamples ==
    { <<"a","@","b",".","c","o">>, <<"b","a","d">>, <<>> }

\* To addresses: "a@b.co" and " ".
ToSamples ==
    { <<"a","@","b",".","c","o">>, <<" ">> }

\* Subjects: "Hi" and "".
SubjectSamples ==
    { <<"H","i">>, <<>> }

\* Bodies: "", "<p>", 10 MiB + 1 of 'x'.
HTMLSamples ==
    { <<>>,
      << [ch |-> "<", n |-> 1], [ch |-> "p", n |-> 1], [ch |-> ">", n |-> 1] >>,
      << [ch |-> "x", n |-> MaxContentSize + 1] >> }

\* Bodies: "" and "yo".
TextSamples ==
    { <<>>, << [ch |-> "y", n |-> 1], [ch |-> "o", n |-> 1] >> }

Emails ==
    { NewEmailWithBoth(f, t, s, h, x) :
        f \in FromSamples, t \in ToSamples,
        s \in SubjectSamples, h \in HTMLSamples, x \in TextSamples }

\* Configurations NewClientWithConfig accepts.  Base URLs: the default,
\* "http://timeout/" (a trailing slash, and a host named timeout) and ":"
\* (which url.Parse rejects).
BaseURLSamples ==
    { DefaultBaseURL, <<"h","t","t","p",":","/","/","t","i","m","e","o","u","t","/">>, <<":">> }

ClientConfigs ==
    { [NewConfig EXCEPT !.APIKey = <<"k">>, !.BaseURL = u, !.Timeout = t] :
        u \in BaseURLSamples, t \in {DefaultTimeout} }

\* Messages of a response body: "", "ok", "expired", "unlimited",
\* "trial expired", "trial limit".
MessageSamples ==
    { <<>>, <<"o","k">>, <<"e","x","p","i","r","e","d">>, <<"u","n","l","i","m","i","t","e","d">>,
      <<"t","r","i","a","l"," ","e","x","p","i","r","e","d">>,
      <<"t","r","i","a","l"," ","l","i","m","i","t">> }

\* "why"
sWhy ==
    <<"w","h","y">>

\* Values of one key of a response body; Absent: the key is not there.
Absent ==
    [t |-> "absent"]

MessageValues ==
    { JString(m) : m \in MessageSamples } \cup { Absent, JNumber(5) }

ErrorValues ==
    { JString(sWhy), Absent, JNumber(5) }

SuccessValues ==
    { JBool(TRUE), JBool(FALSE), Absent, JString(sWhy) }

ObjectBody(s, m, e) ==
    LET all == [success |-> s, message |-> m, error |-> e]
    IN  [kind |-> "object",
         fields |-> [ k \in { f \in DOMAIN all : all[f] # Absent } |-> all[k] ]]

\* Response bodies: no bytes at all, bytes that are not JSON, null, an
\* array, and objects.
Bodies ==
    { [kind |-> "invalid", text |-> sEmpty],
      [kind |-> "invalid", text |-> sWhy],
      [kind |-> "null"],
      [kind |-> "array"] }
    \cup { ObjectBody(s, m, e) :
             s \in SuccessValues, m \in MessageValues, e \in ErrorValues }

\* The names of the rate limit headers as a server may spell them.
UpperCase(s) ==
    [ i \in DOMAIN s |-> ToUpperChar(s[i]) ]

Spellings ==
    {"lower", "canonical", "upper"}

Spell(name, spelling) ==
    IF spelling = "lower" THEN name
    ELSE IF spelling = "upper" THEN UpperCase(name)
    ELSE CanonicalHeaderKey(name)

NoValue ==
    [present |-> FALSE]

Value(v) ==
    [present |-> TRUE, value |-> v]

\* Header values: "60", "x"; "100", ""; "-1"; "1678886400", "+5".
RetryAfterValues ==
    { NoValue, Value(<<"6","0">>), Value(<<"x">>) }

LimitValues ==
    { NoValue, Value(<<"1","0","0">>), Value(<<>>) }

RemainingValues ==
    { NoValue, Value(<<"-","1">>) }

ResetValues ==
    { NoValue, Value(<<"1","6","7","8","8","8","6","4","0","0">>), Value(<<"+","5">>) }

\* The header lines of a response, in order, the absent ones left out.
WireHeader(spelling, ra, li, re, rs) ==
    LET all == << [name |-> Spell(hRetryAfter, spelling), v |-> ra],
                  [name |-> Spell(hRatelimitLimit, spelling), v |-> li],
                  [name |-> Spell(hRatelimitRemaining, spelling), v |-> re],
                  [name |-> Spell(hRatelimitReset, spelling), v |-> rs] >>
        IsPresent(h) == h.v.present
        present == SelectSeq(all, IsPresent)
    IN  [ i \in DOMAIN present |->
            [name |-> present[i].name, value |-> present[i].v.value] ]

\* Every combination of values under the canonical spelling; under the
\* other spellings the four headers present, and the first two only.
WireHeaders ==
    { WireHeader("canonical", ra, li, re, rs) :
        ra \in RetryAfterValues, li \in LimitValues,
        re \in RemainingValues, rs \in ResetValues }
    \cup { WireHeader(sp, Value(<<"6","0">>), Value(<<"1","0","0">>), re, rs) :
             sp \in Spellings,
             re \in {NoValue, Value(<<"-","1">>)},
             rs \in {NoValue, Value(<<"+","5">>)} }

\* A response without rate limit headers and one with all four.
PlainWireHeaders ==
    { WireHeader("canonical", NoValue, NoValue, NoValue, NoValue),
      WireHeader("canonical", Value(<<"6","0">>), Value(<<"1","0","0">>),
                 Value(<<"-","1">>), Value(<<"+","5">>)) }

\* Each header as the server wrote it and as http.Client hands it over.
ReceivedHeaders(wires) ==
    { [Wire |-> w, Header |-> ReadHeader(w)] : w \in wires }

RateLimitHeaders ==
    ReceivedHeaders(WireHeaders)

PlainHeaders ==
    ReceivedHeaders(PlainWireHeaders)

StatusCodes ==
    { 200, StatusAccepted, 204, StatusBadRequest, StatusUnauthorized,
      StatusPaymentRequired, StatusForbidden, 404, StatusUnprocessableEntity,
      StatusTooManyRequests, 500 }

\* A response: Wire is the header as the server wrote it, Header the
\* http.Header of the *http.Response, ReadOK whether io.ReadAll(resp.Body)
\* succeeds, Body what it reads.
Response(statusCode, h, readOK, body) ==
    [kind |-> "response", StatusCode |-> statusCode, Wire |-> h.Wire,
     Header |-> h.Header, ReadOK |-> readOK, Body |-> body]

\* Causes of a failed Do, each with the text of the cause and with what the
\* error's Timeout() method reports:
\*   "connection refused"                                        no timeout
\*   "i/o timeout"                                               a timeout
\*   "context deadline exceeded (Client.Timeout exceeded while
\*    awaiting headers)", the http.Client's Timeout running out   a timeout
DoCauses ==
    { [text |-> <<"c","o","n","n","e","c","t","i","o","n"," ","r","e","f","u","s","e","d">>,
       timeout |-> FALSE],
      [text |-> <<"i","/","o"," ","t","i","m","e","o","u","t">>,
       timeout |-> TRUE],
      [text |-> <<"c","o","n","t","e","x","t"," ","d","e","a","d","l","i","n","e"," ","e","x","c","e","e","d","e","d"," ","(","C","l","i","e","n","t",".","T","i","m","e","o","u","t"," ">>
                \o <<"e","x","c","e","e","d","e","d"," ","w","h","i","l","e"," ","a","w","a","i","t","i","n","g"," ","h","e","a","d","e","r","s",")">>,
       timeout |-> TRUE] }

\* The responses a server can give.
Responses ==
    { Response(s, h, FALSE, [kind |-> "invalid", text |-> sEmpty]) :
        s \in {StatusAccepted, 500}, h \in PlainHeaders }
    \cup { Response(s, h, TRUE, b) :
             s \in StatusCodes \ {StatusTooManyRequests},
             h \in PlainHeaders, b \in Bodies }
    \cup { Response(StatusTooManyRequests, h, TRUE, b) :
             h \in RateLimitHeaders, b \in Bodies }

\* The errors Do can return for a request to url.
TransportErrors(url) ==
    { [kind |-> "error", text |-> DoErrorText(url, c.text), timeout |-> c.timeout] :
        c \in DoCauses }

\* What the transport can give back for a request to url.
TransportResults(url) ==
    TransportErrors(url) \cup Responses

(***************************************************************************)
(* The inputs of Email.Validate and isValidEmail.                          *)
(***************************************************************************)
\* strings.Repeat(c, n) for a one-character string c.
Repeat(c, n) ==
    [ i \in 1..n |-> c ]

\* Local parts: "a", "user+tag", "user123", "a_%-b", ".a", "a.", "a..b", "", "a b", "é".
LocalSamples ==
    { <<"a">>,
      <<"u","s","e","r","+","t","a","g">>,
      <<"u","s","e","r","1","2","3">>,
      <<"a","_","%","-","b">>,
      <<".","a">>,
      <<"a",".">>,
      <<"a",".",".","b">>,
      <<>>,
      <<"a"," ","b">>,
      <<"é">> }

\* Domains: "b.co", "example-domain.com", "x.b.co", "-b.co", "b.co-", "b-.co", "b.-c.co", ".b.co", "b.co.", "b..co", "b.c", "b.c0m", "localhost", "b@c.co", "b_.co".
DomainSamples ==
    { <<"b",".","c","o">>,
      <<"e","x","a","m","p","l","e","-","d","o","m","a","i","n",".","c","o","m">>,
      <<"x",".","b",".","c","o">>,
      <<"-","b",".","c","o">>,
      <<"b",".","c","o","-">>,
      <<"b","-",".","c","o">>,
      <<"b",".","-","c",".","c","o">>,
      <<".","b",".","c","o">>,
      <<"b",".","c","o",".">>,
      <<"b",".",".","c","o">>,
      <<"b",".","c">>,
      <<"b",".","c","0","m">>,
      <<"l","o","c","a","l","h","o","s","t">>,
      <<"b","@","c",".","c","o">>,
      <<"b","_",".","c","o">> }

\* White space around an address: none, " " before, " " after, "\t" before
\* and "\n" after.
PadSamples ==
    { << <<>>, <<>> >>, << <<" ">>, <<>> >>, << <<>>, <<" ">> >>, << <<"\t">>, <<"\n">> >> }

\* Addresses of 254 and of 255 bytes, "a@b.co" followed by 249 spaces, 253
\* characters that take 254 bytes and 254 characters that take 255, and
\* strings without an '@'.
LongAddresses ==
    { Repeat("a", 248) \o <<"@","b",".","c","o">>,
      Repeat("a", 249) \o <<"@","b",".","c","o">>,
      <<"a","@","b",".","c","o">> \o Repeat(" ", 249),
      <<"é">> \o Repeat("a", 247) \o <<"@","b",".","c","o">>,
      <<"é">> \o Repeat("a", 248) \o <<"@","b",".","c","o">>,
      <<"b","a","d">>, <<>>, <<" ">>, <<"@">> }

AddressSamples ==
    { pad[1] \o l \o sAt \o d \o pad[2] :
        l \in LocalSamples, d \in DomainSamples, pad \in PadSamples }
    \cup LongAddresses

\* From and To addresses of the emails handed to Validate: "a@b.co", "bad",
\* "", " " and " a@b.co".
ValidateAddresses ==
    { <<"a","@","b",".","c","o">>, <<"b","a","d">>, <<>>, <<" ">>,
      <<" ","a","@","b",".","c","o">> }

\* Subjects: "Hi", "" and " \t".
ValidateSubjects ==
    { <<"H","i">>, <<>>, <<" ","\t">> }

\* One body of n times the character c.
Bulk(c, n) ==
    << [ch |-> c, n |-> n] >>

\* Bodies: "", "yo", " ", MaxContentSize and MaxContentSize + 1 bytes of
\* 'x', MaxContentSize + 1 spaces, and MaxContentSize \div 2 + 1 times "é",
\* which is fewer than MaxContentSize characters in MaxContentSize + 2 bytes.
ValidateBodies ==
    { <<>>,
      << [ch |-> "y", n |-> 1], [ch |-> "o", n |-> 1] >>,
      Bulk(" ", 1),
      Bulk("x", MaxContentSize),
      Bulk("x", MaxContentSize + 1),
      Bulk(" ", MaxContentSize + 1),
      Bulk("é", (MaxContentSize \div 2) + 1) }

ValidateEmails ==
    { NewEmailWithBoth(f, t, s, h, x) :
        f \in ValidateAddresses, t \in {<<"a","@","b",".","c","o">>, <<>>},
        s \in ValidateSubjects, h \in ValidateBodies, x \in ValidateBodies }

(***************************************************************************)
(* The inputs of the constructors and of the writes to a Config.           *)
(***************************************************************************)
\* API keys: "" and "k".
APIKeySamples ==
    { <<>>, <<"k">> }

\* Configurations handed to NewClientWithConfig: every combination of an API
\* key "" or "k", a base URL "" or the default, a timeout of 0, -1 s or
\* 45 s, a connect timeout of 0 or 15 s, and a debug flag.
ConfigSamples ==
    [APIKey : APIKeySamples,
     BaseURL : { <<>>, DefaultBaseURL },
     Timeout : { 0, -Second, 45 * Second },
     ConnectTimeout : { 0, 15 * Second },
     Debug : BOOLEAN]

\* Environments: POODLE_API_KEY unset or "k"; POODLE_BASE_URL unset or
\* "http://timeout/"; POODLE_TIMEOUT unset, "45s", "0s", "-5s", "abc",
\* "1.5s", "1m30s" or "5"; POODLE_CONNECT_TIMEOUT unset, "0" or "15s";
\* POODLE_DEBUG unset, "true", "yes", "0" or "T".
EnvSamples ==
    [POODLE_API_KEY : APIKeySamples,
     POODLE_BASE_URL : { <<>>, <<"h","t","t","p",":","/","/","t","i","m","e","o","u","t","/">> },
     POODLE_TIMEOUT : { <<>>, <<"4","5","s">>, <<"0","s">>, <<"-","5","s">>, <<"a","b","c">>, <<"1",".","5","s">>, <<"1","m","3","0","s">>, <<"5">> },
     POODLE_CONNECT_TIMEOUT : { <<>>, <<"0">>, <<"1","5","s">> },
     POODLE_DEBUG : { <<>>, <<"t","r","u","e">>, <<"y","e","s">>, <<"0">>, <<"T">> }]

\* The configurations of the concurrent specification: one that
\* Config.Validate accepts and one it rejects.
FewConfigs ==
    { [NewConfig EXCEPT !.APIKey = <<"k">>], NewConfig }

\* Assignments to a field of a Config: cfg.APIKey = "", cfg.Timeout = 0,
\* cfg.Debug = true.
ConfigWrites ==
    << [field |-> "APIKey", value |-> <<>>],
       [field |-> "Timeout", value |-> 0],
       [field |-> "Debug", value |-> TRUE] >>

\* The email of the concurrent specification.
OneEmail ==
    NewTextEmail(<<"a","@","b",".","c","o">>, <<"a","@","b",".","c","o">>, <<"H","i">>,
                 << [ch |-> "y", n |-> 1], [ch |-> "o", n |-> 1] >>)
(***************************************************************************)
(* client.go: the Client, its lock, and the goroutines that call it.       *)
(*                                                                         *)
(*   config     the Config the Client and its HTTPClient point to: the     *)
(*              object handed to NewClientWithConfig (which the caller     *)
(*              still holds), or the one NewClient / NewClientFromEnv      *)
(*              built; NIL before a constructor was called                 *)
(*   client     the Client: NIL before a constructor was called, a record  *)
(*              of type "Client" once one returned, of type "panic" once   *)
(*              one panicked.  It remembers the constructor, the goroutine *)
(*              that holds a pointer to config (NoHolder when none does),  *)
(*              the configuration it was built with, and whether that      *)
(*              goroutine has written to config since                      *)
(*   copies     the Config objects GetConfig allocated, by address; NIL    *)
(*              where none is allocated                                    *)
(*   lastDebug  the argument of the latest SetDebug that wrote (the Debug  *)
(*              the client was built with when there was none)             *)
(*   readers    the goroutines holding c.mutex for reading                 *)
(*   writer     the goroutine holding c.mutex for writing, or NoWriter     *)
(*   pc         where each goroutine is: "idle"; "inDo" while its Send     *)
(*              waits for c.httpClient.Do to return; "SetDebug", "IsDebug" *)
(*              and "GetConfig" while it holds the lock in that method and *)
(*              is about to access config; "returned" when a call has just *)
(*              returned to it; "panicked" when its constructor panicked   *)
(*   call       the call in flight of each goroutine: for a Send its       *)
(*              email, the request handed to Do, how often Do was invoked, *)
(*              whether the request was logged                             *)
(*   result     what the call that has just returned to each goroutine was *)
(*              given and returned; NIL once the goroutine has moved on    *)
(***************************************************************************)
VARIABLES config, readers, writer, pc, call, result, client, copies, lastDebug

vars ==
    << config, readers, writer, pc, call, result, client, copies, lastDebug >>

\* The goroutine of the sequential specifications.
Callers ==
    {"g1"}

\* The goroutines of the concurrent specifications.
Goroutines ==
    {"g1", "g2"}

NoWriter ==
    "none"

NoHolder ==
    "none"

\* Addresses of Config objects: the one c.config points to, and those of
\* the objects GetConfig allocates.
ClientConfigPtr ==
    0

MaxCopies ==
    2

CopyPtrs ==
    1..MaxCopies

\* The Client a constructor returned: by names the constructor, holder the
\* goroutine that passed config in and can still write to it.
ClientOf(cfg, by, holder) ==
    [type |-> "Client", by |-> by, holder |-> holder, cfg |-> cfg,
     cfgWritten |-> FALSE]

HasClient ==
    client.type = "Client"

\* No goroutine is in a call, no lock is held, nothing is allocated.
Start(procs) ==
    /\ readers = {}
    /\ writer = NoWriter
    /\ pc = [ p \in procs |-> "idle" ]
    /\ call = [ p \in procs |-> NIL ]
    /\ result = [ p \in procs |-> NIL ]
    /\ copies = [ a \in CopyPtrs |-> NIL ]

\* A client built from an acceptable configuration that no caller holds.
Init ==
    /\ config \in ClientConfigs
    /\ client = ClientOf(config, "NewClientWithConfig", NoHolder)
    /\ lastDebug = config.Debug
    /\ Start(Callers)

\* A goroutine is blocked in c.mutex.Lock().
WriterWaiting ==
    \E q \in DOMAIN pc : pc[q] = "SetDebugWait"

\* An RLock() that returns while a goroutine holds the lock for writing.
CanRLockIgnoringWriter ==
    TRUE

\* c.mutex.RLock() can return: no goroutine holds the lock for writing and
\* none is blocked in Lock() (a blocked Lock keeps new readers out).
CanRLock ==
    writer = NoWriter /\ ~WriterWaiting

\* A Lock() that returns while readers still hold the lock.
CanLockIgnoringReaders ==
    writer = NoWriter

\* c.mutex.Lock() can return: no goroutine holds the lock at all.
CanLock ==
    writer = NoWriter /\ readers = {}

\* Client.Send(email) up to the point where SendEmail calls Do.  When
\* SendEmail returns before that, Send returns too and the deferred RUnlock
\* has run: the lock is as before.
Send(p, email) ==
    /\ pc[p] = "idle"
    /\ HasClient
    /\ CanRLock
    /\ LET prep == SendEmailPrepare(config, email)
       IN  IF prep.done
           THEN /\ result' = [result EXCEPT ![p] =
                                [type |-> "Send",
                                 email |-> email,
                                 sent |-> FALSE,
                                 doCalls |-> 0,
                                 loggedRequest |-> FALSE,
                                 loggedResponse |-> FALSE,
                                 resp |-> prep.ret.resp,
                                 err |-> prep.ret.err]]
                /\ pc' = [pc EXCEPT ![p] = "returned"]
                /\ UNCHANGED << readers, call >>
           ELSE /\ readers' = readers \cup {p}
                /\ pc' = [pc EXCEPT ![p] = "inDo"]
                /\ call' = [call EXCEPT ![p] =
                              [type |-> "Send",
                               email |-> email,
                               req |-> prep.req,
                               doCalls |-> 1,
                               loggedRequest |-> config.Debug]]
                /\ result' = [result EXCEPT ![p] = NIL]
    /\ UNCHANGED << config, writer, client, copies, lastDebug >>

\* A Send that returns without the deferred RUnlock.
SendReturnsHolding(p, tr) ==
    /\ result' = [result EXCEPT ![p] =
                    [type |-> "Send", email |-> call[p].email, sent |-> TRUE,
                     req |-> call[p].req, tr |-> tr, doCalls |-> call[p].doCalls,
                     loggedRequest |-> call[p].loggedRequest,
                     loggedResponse |-> FALSE,
                     resp |-> NIL, err |-> NIL]]
    /\ pc' = [pc EXCEPT ![p] = "returned"]
    /\ call' = [call EXCEPT ![p] = NIL]
    /\ UNCHANGED << config, readers, writer, client, copies, lastDebug >>

\* SendEmail from the return of Do with tr to the return of Send: the body
\* is read, logged and classified, SendEmail returns, Send returns and the
\* deferred RUnlock runs.
SendReturns(p, tr) ==
    /\ LET ret == SendEmailComplete(config, call[p].req.URL, tr)
       IN  result' = [result EXCEPT ![p] =
                        [type |-> "Send",
                         email |-> call[p].email,
                         sent |-> TRUE,
                         req |-> call[p].req,
                         tr |-> tr,
                         doCalls |-> call[p].doCalls,
                         loggedRequest |-> call[p].loggedRequest,
                         loggedResponse |->
                             (tr.kind = "response" /\ tr.ReadOK /\ config.Debug),
                         resp |-> ret.resp,
                         err |-> ret.err]]
    /\ readers' = readers \ {p}
    /\ pc' = [pc EXCEPT ![p] = "returned"]
    /\ call' = [call EXCEPT ![p] = NIL]
    /\ UNCHANGED << config, writer, client, copies, lastDebug >>

\* DoReturns with one retry: when Do fails, Do is invoked a second time.
DoReturnsRetry(p) ==
    /\ pc[p] = "inDo"
    /\ \E tr \in TransportResults(call[p].req.URL) :
         IF tr.kind = "error" /\ call[p].doCalls < 2
         THEN /\ call' = [call EXCEPT ![p].doCalls = @ + 1]
              /\ UNCHANGED << config, readers, writer, pc, result, client, copies,
                              lastDebug >>
         ELSE SendReturns(p, tr)

\* c.httpClient.Do returns: the transport gives back an error or a
\* response, and the Send goes on to its return.
DoReturns(p) ==
    /\ pc[p] = "inDo"
    /\ \E tr \in TransportResults(call[p].req.URL) : SendReturns(p, tr)

\* What a read of c.config.Debug by p can give: the flag, or, when another
\* goroutine is about to write it at the same time (a data race), anything.
ReadDebug(p) ==
    IF \E q \in DOMAIN pc \ {p} : pc[q] = "SetDebug" THEN BOOLEAN ELSE {config.Debug}

\* Client.SetDebug(debug) up to the return of c.mutex.Lock().
SetDebugLock(p, debug) ==
    /\ pc[p] = "idle"
    /\ HasClient
    /\ CanLock
    /\ writer' = p
    /\ pc' = [pc EXCEPT ![p] = "SetDebug"]
    /\ call' = [call EXCEPT ![p] = [type |-> "SetDebug", debug |-> debug]]
    /\ UNCHANGED << config, readers, result, client, copies, lastDebug >>

\* A SetDebug that stores a new default configuration with the flag.
SetDebugWriteResetting(p) ==
    /\ pc[p] = "SetDebug"
    /\ config' = [NewConfig EXCEPT !.Debug = call[p].debug]
    /\ lastDebug' = call[p].debug
    /\ writer' = IF writer = p THEN NoWriter ELSE writer
    /\ pc' = [pc EXCEPT ![p] = "returned"]
    /\ result' = [result EXCEPT ![p] = [type |-> "SetDebug", debug |-> call[p].debug]]
    /\ call' = [call EXCEPT ![p] = NIL]
    /\ UNCHANGED << readers, client, copies >>

\* c.config.Debug = debug, the deferred Unlock and the return.  A write
\* that another goroutine's write races with leaves either value.
SetDebugWrite(p) ==
    /\ pc[p] = "SetDebug"
    /\ \E written \in IF \E q \in DOMAIN pc \ {p} : pc[q] \in {"SetDebug"}
                      THEN BOOLEAN ELSE {call[p].debug} :
          config' = [config EXCEPT !.Debug = written]
    /\ lastDebug' = call[p].debug
    /\ writer' = IF writer = p THEN NoWriter ELSE writer
    /\ pc' = [pc EXCEPT ![p] = "returned"]
    /\ result' = [result EXCEPT ![p] = [type |-> "SetDebug", debug |-> call[p].debug]]
    /\ call' = [call EXCEPT ![p] = NIL]
    /\ UNCHANGED << readers, client, copies >>

\* Client.IsDebug() up to the return of c.mutex.RLock().
IsDebugRLock(p) ==
    /\ pc[p] = "idle"
    /\ HasClient
    /\ CanRLock
    /\ readers' = readers \cup {p}
    /\ pc' = [pc EXCEPT ![p] = "IsDebug"]
    /\ call' = [call EXCEPT ![p] = [type |-> "IsDebug"]]
    /\ UNCHANGED << config, writer, result, client, copies, lastDebug >>

\* return c.config.Debug, with the deferred RUnlock.  The result remembers
\* the argument of the latest SetDebug at the time of the read.
IsDebugRead(p) ==
    /\ pc[p] = "IsDebug"
    /\ \E value \in ReadDebug(p) :
          result' = [result EXCEPT ![p] =
                       [type |-> "IsDebug", value |-> value, last |-> lastDebug]]
    /\ readers' = readers \ {p}
    /\ pc' = [pc EXCEPT ![p] = "returned"]
    /\ call' = [call EXCEPT ![p] = NIL]
    /\ UNCHANGED << config, writer, client, copies, lastDebug >>

\* Client.GetConfig() up to the return of c.mutex.RLock().  (The guard on
\* a free address keeps the addresses within CopyPtrs.)
GetConfigRLock(p) ==
    /\ pc[p] = "idle"
    /\ HasClient
    /\ CanRLock
    /\ \E a \in CopyPtrs : copies[a] = NIL
    /\ readers' = readers \cup {p}
    /\ pc' = [pc EXCEPT ![p] = "GetConfig"]
    /\ call' = [call EXCEPT ![p] = [type |-> "GetConfig"]]
    /\ UNCHANGED << config, writer, result, client, copies, lastDebug >>

\* GetConfig returning c.config itself.
CopyConfigAlias(cps, cfg) ==
    [ptr |-> ClientConfigPtr, copies |-> cps]

\* configCopy := *c.config; return &configCopy: a new object with the
\* fields of cfg, and its address.
CopyConfig(cps, cfg) ==
    LET free == { a \in CopyPtrs : cps[a] = NIL }
        new == CHOOSE a \in free : \A b \in free : a <= b
    IN  [ptr |-> new, copies |-> [cps EXCEPT ![new] = cfg]]

\* The copy, the deferred RUnlock and the return.  The result remembers the
\* values as returned and the argument of the latest SetDebug at that time.
GetConfigCopy(p) ==
    /\ pc[p] = "GetConfig"
    /\ \E debug \in ReadDebug(p) :
          LET read == [config EXCEPT !.Debug = debug]
              copy == CopyConfig(copies, read)
          IN  /\ copies' = copy.copies
              /\ result' = [result EXCEPT ![p] =
                              [type |-> "GetConfig", ptr |-> copy.ptr,
                               value |-> read, last |-> lastDebug]]
    /\ readers' = readers \ {p}
    /\ pc' = [pc EXCEPT ![p] = "returned"]
    /\ call' = [call EXCEPT ![p] = NIL]
    /\ UNCHANGED << config, writer, client, lastDebug >>

\* The goroutine that handed its Config to NewClientWithConfig assigns to a
\* field of it (cfg.APIKey = ""): the Client points to the same object.
WriteCfg(p, w) ==
    /\ pc[p] = "idle"
    /\ HasClient
    /\ client.holder = p
    /\ config[w.field] # w.value
    /\ config' = [config EXCEPT ![w.field] = w.value]
    /\ client' = [client EXCEPT !.cfgWritten = TRUE]
    /\ UNCHANGED << readers, writer, pc, call, result, copies, lastDebug >>

\* The goroutine assigns to a field of the Config that GetConfig has just
\* returned to it.
WriteReturned(p, w) ==
    /\ pc[p] = "returned"
    /\ result[p].type = "GetConfig"
    /\ LET ptr == result[p].ptr
       IN  IF ptr = ClientConfigPtr
           THEN /\ config[w.field] # w.value
                /\ config' = [config EXCEPT ![w.field] = w.value]
                /\ UNCHANGED copies
           ELSE /\ copies[ptr][w.field] # w.value
                /\ copies' = [copies EXCEPT ![ptr][w.field] = w.value]
                /\ UNCHANGED config
    /\ UNCHANGED << readers, writer, pc, call, result, client, lastDebug >>

\* NewClientWithConfig(cfg), called by by on behalf of p; holder is the
\* goroutine that keeps a pointer to cfg.
Construct(p, cfg, by, holder) ==
    /\ pc[p] = "idle"
    /\ client = NIL
    /\ config' = cfg
    /\ IF ConfigValidate(cfg) # "nil"
       THEN /\ client' = [type |-> "panic", by |-> by]
            /\ pc' = [pc EXCEPT ![p] = "panicked"]
            /\ result' = [result EXCEPT ![p] =
                            [type |-> by, cfg |-> cfg, panic |-> ConfigValidate(cfg)]]
            /\ UNCHANGED lastDebug
       ELSE /\ client' = ClientOf(cfg, by, holder)
            /\ pc' = [pc EXCEPT ![p] = "returned"]
            /\ result' = [result EXCEPT ![p] =
                            [type |-> by, cfg |-> cfg, panic |-> "nil"]]
            /\ lastDebug' = cfg.Debug
    /\ UNCHANGED << readers, writer, call, copies >>

NewClientWithConfig(p, cfg) ==
    Construct(p, cfg, "NewClientWithConfig", p)

NewClient(p, apiKey) ==
    Construct(p, [NewConfig EXCEPT !.APIKey = apiKey], "NewClient", NoHolder)

NewClientFromEnv(p, env) ==
    Construct(p, NewConfigFromEnv(env), "NewClientFromEnv", NoHolder)

\* The goroutine is done with what the call returned and goes on; a Config
\* that GetConfig returned to it is no longer referred to.
Continue(p) ==
    /\ pc[p] = "returned"
    /\ pc' = [pc EXCEPT ![p] = "idle"]
    /\ result' = [result EXCEPT ![p] = NIL]
    /\ copies' = IF result[p].type = "GetConfig" /\ result[p].ptr \in CopyPtrs
                 THEN [copies EXCEPT ![result[p].ptr] = NIL]
                 ELSE copies
    /\ UNCHANGED << config, readers, writer, call, client, lastDebug >>

Next ==
    \E p \in Callers :
        \/ \E email \in Emails : Send(p, email)
        \/ DoReturns(p)
        \/ \E debug \in BOOLEAN : SetDebugLock(p, debug)
        \/ SetDebugWrite(p)
        \/ Continue(p)

Spec ==
    Init /\ [][Next]_vars

(***************************************************************************)
(* email.go called on its own: a goroutine calls Email.Validate, or        *)
(* isValidEmail, and is given the result.                                  *)
(***************************************************************************)
\* A client built with NewClient("k") and one goroutine.
InitDefault ==
    /\ config = [NewConfig EXCEPT !.APIKey = <<"k">>]
    /\ client = ClientOf(config, "NewClient", NoHolder)
    /\ lastDebug = config.Debug
    /\ Start(Callers)

\* email.Validate() called by p.
ValidateCall(p, email) ==
    /\ pc[p] = "idle"
    /\ pc' = [pc EXCEPT ![p] = "returned"]
    /\ result' = [result EXCEPT ![p] =
                     [type |-> "Validate", email |-> email, err |-> Validate(email)]]
    /\ UNCHANGED << config, readers, writer, call, client, copies, lastDebug >>

NextValidate ==
    \E p \in Callers :
        \/ \E email \in ValidateEmails : ValidateCall(p, email)
        \/ Continue(p)

SpecValidate ==
    InitDefault /\ [][NextValidate]_vars

\* isValidEmail(email) called by p.
isValidEmailCall(p, email) ==
    /\ pc[p] = "idle"
    /\ pc' = [pc EXCEPT ![p] = "returned"]
    /\ result' = [result EXCEPT ![p] =
                     [type |-> "isValidEmail", email |-> email, ok |-> isValidEmail(email)]]
    /\ UNCHANGED << config, readers, writer, call, client, copies, lastDebug >>

NextIsValidEmail ==
    \E p \in Callers :
        \/ \E email \in AddressSamples : isValidEmailCall(p, email)
        \/ Continue(p)

SpecIsValidEmail ==
    InitDefault /\ [][NextIsValidEmail]_vars

(***************************************************************************)
(* client.go called by several goroutines, and the constructors.           *)
(***************************************************************************)
\* c.httpClient.Do returns an error.
DoFails(p) ==
    /\ pc[p] = "inDo"
    /\ \E tr \in TransportErrors(call[p].req.URL) : SendReturns(p, tr)

\* Two goroutines and a client built with NewClient("k").
InitDebug ==
    /\ config = [NewConfig EXCEPT !.APIKey = <<"k">>]
    /\ client = ClientOf(config, "NewClient", NoHolder)
    /\ lastDebug = config.Debug
    /\ Start(Goroutines)

\* SetDebug, IsDebug and GetConfig called by the goroutines in any order.
NextDebug ==
    \E p \in Goroutines :
        \/ \E debug \in BOOLEAN : SetDebugLock(p, debug)
        \/ SetDebugWrite(p)
        \/ IsDebugRLock(p)
        \/ IsDebugRead(p)
        \/ GetConfigRLock(p)
        \/ GetConfigCopy(p)
        \/ Continue(p)

SpecDebug ==
    InitDebug /\ [][NextDebug]_vars

\* No client yet.
InitNoClient(procs) ==
    /\ config = NIL
    /\ client = NIL
    /\ lastDebug = FALSE
    /\ Start(procs)

InitConstruct ==
    InitNoClient(Callers)

\* A constructor, and GetConfig on the client it returned.
NextConstruct ==
    \E p \in Callers :
        \/ \E cfg \in ConfigSamples : NewClientWithConfig(p, cfg)
        \/ \E apiKey \in APIKeySamples : NewClient(p, apiKey)
        \/ \E env \in EnvSamples : NewClientFromEnv(p, env)
        \/ GetConfigRLock(p)
        \/ GetConfigCopy(p)
        \/ Continue(p)

SpecConstruct ==
    InitConstruct /\ [][NextConstruct]_vars

InitClient ==
    InitNoClient(Goroutines)

\* Two goroutines: one of them builds the client, then both call it and
\* write to the Config objects they hold.
NextClient ==
    \E p \in Goroutines :
        \/ \E cfg \in FewConfigs : NewClientWithConfig(p, cfg)
        \/ NewClient(p, <<"k">>)
        \/ \E debug \in BOOLEAN : SetDebugLock(p, debug)
        \/ SetDebugWrite(p)
        \/ IsDebugRLock(p)
        \/ IsDebugRead(p)
        \/ GetConfigRLock(p)
        \/ GetConfigCopy(p)
        \/ \E i \in DOMAIN ConfigWrites : WriteCfg(p, ConfigWrites[i])
        \/ \E i \in DOMAIN ConfigWrites : WriteReturned(p, ConfigWrites[i])
        \/ Send(p, OneEmail)
        \/ DoFails(p)
        \/ Continue(p)

SpecClient ==
    InitClient /\ [][NextClient]_vars

(***************************************************************************)
(* client.go: the Send family and SetDebug on one client, with calls that  *)
(* wait for the lock.                                                      *)
(***************************************************************************)
\* Responses of the concurrent specification: 202, 401 and 500 with
\* {"success":true,"message":"ok"}, and 500 with a body that cannot be read.
FewResponses ==
    LET h == [Wire |-> <<>>, Header |-> ReadHeader(<<>>)]
        ok == ObjectBody(JBool(TRUE), JString(<<"o","k">>), Absent)
    IN  { Response(s, h, TRUE, ok) : s \in {StatusAccepted, StatusUnauthorized, 500} }
        \cup { Response(500, h, FALSE, [kind |-> "invalid", text |-> sEmpty]) }

\* c.httpClient.Do returns, in the concurrent specification.
DoCompletes(p) ==
    /\ pc[p] = "inDo"
    /\ \E tr \in TransportErrors(call[p].req.URL) \cup FewResponses :
          SendReturns(p, tr)

\* Client.SendHTML(from, to, subject, html)
SendHTML(p, from, to, subject, html) ==
    Send(p, NewHTMLEmail(from, to, subject, html))

\* Client.SendText(from, to, subject, text)
SendText(p, from, to, subject, text) ==
    Send(p, NewTextEmail(from, to, subject, text))

\* Client.SendWithBoth(from, to, subject, html, text)
SendWithBoth(p, from, to, subject, html, text) ==
    Send(p, NewEmailWithBoth(from, to, subject, html, text))

\* Client.SetDebug(debug) is called and c.mutex.Lock() has not returned yet.
SetDebugCall(p, debug) ==
    /\ pc[p] = "idle"
    /\ HasClient
    /\ pc' = [pc EXCEPT ![p] = "SetDebugWait"]
    /\ call' = [call EXCEPT ![p] = [type |-> "SetDebug", debug |-> debug]]
    /\ UNCHANGED << config, readers, writer, result, client, copies, lastDebug >>

\* A Lock() that returns without waiting for the holders of the lock.
SetDebugAcquireAnyway(p) ==
    /\ pc[p] = "SetDebugWait"
    /\ writer' = p
    /\ pc' = [pc EXCEPT ![p] = "SetDebug"]
    /\ UNCHANGED << config, readers, call, result, client, copies, lastDebug >>

\* c.mutex.Lock() returns to the goroutine that was blocked in it.
SetDebugAcquire(p) ==
    /\ pc[p] = "SetDebugWait"
    /\ CanLock
    /\ writer' = p
    /\ pc' = [pc EXCEPT ![p] = "SetDebug"]
    /\ UNCHANGED << config, readers, call, result, client, copies, lastDebug >>

\* Two goroutines and a client built with NewClient("k").
InitLock ==
    InitDebug

\* The calls of the concurrent specification: a valid and an invalid
\* message.
NextLock ==
    \E p \in Goroutines :
        \/ Send(p, OneEmail)
        \/ SendHTML(p, <<"b","a","d">>, OneEmail.To, OneEmail.Subject,
                    << [ch |-> "p", n |-> 1] >>)
        \/ SendText(p, OneEmail.From, OneEmail.To, OneEmail.Subject, OneEmail.Text)
        \/ SendWithBoth(p, OneEmail.From, OneEmail.To, OneEmail.Subject,
                        << [ch |-> "p", n |-> 1] >>, OneEmail.Text)
        \/ DoCompletes(p)
        \/ \E debug \in BOOLEAN : SetDebugCall(p, debug)
        \/ SetDebugAcquire(p)
        \/ SetDebugWrite(p)
        \/ IsDebugRLock(p)
        \/ IsDebugRead(p)
        \/ GetConfigRLock(p)
        \/ GetConfigCopy(p)
        \/ Continue(p)

SpecLock ==
    InitLock /\ [][NextLock]_vars

\* A transport call in flight returns; a call that holds the lock goes on
\* to its return; a goroutine blocked in Lock() is not passed over for
\* ever (sync.Mutex hands the lock to a goroutine that has waited long).
FairLock ==
    \A p \in Goroutines :
        /\ WF_vars(DoCompletes(p))
        /\ SF_vars(SetDebugAcquire(p))
        /\ WF_vars(SetDebugWrite(p))
        /\ WF_vars(IsDebugRead(p))
        /\ WF_vars(GetConfigCopy(p))

SpecLockFair ==
    SpecLock /\ FairLock

(***************************************************************************)
(* http.go: the request that SendEmail builds, for one caller.             *)
(***************************************************************************)
\* Messages whose strings need escaping in JSON: a From with a space before
\* it; the subjects "Hi", "<", a quote and a backslash, and the byte 0xFF;
\* the HTML bodies "", "<p>" and " "; the text bodies "", "yo" and two bytes
\* 0xFF.
RequestEmails ==
    { NewEmailWithBoth(f, OneEmail.To, s, h, x) :
        f \in { OneEmail.From, <<" ">> \o OneEmail.From },
        s \in { <<"H","i">>, <<"<">>, <<"\"","\\">>, <<InvalidByte>> },
        h \in { <<>>,
                << [ch |-> "<", n |-> 1], [ch |-> "p", n |-> 1], [ch |-> ">", n |-> 1] >>,
                << [ch |-> " ", n |-> 1] >> },
        x \in { <<>>, OneEmail.Text, << [ch |-> InvalidByte, n |-> 2] >> } }

NextRequest ==
    \E p \in Callers :
        \/ \E email \in RequestEmails : Send(p, email)
        \/ DoCompletes(p)
        \/ Continue(p)

SpecRequest ==
    Init /\ [][NextRequest]_vars

(***************************************************************************)
(* models.go: a caller serialises an EmailResponse and parses the text.    *)
(***************************************************************************)
\* Characters of the messages: a letter, the quote, the backslash, a line
\* feed, <, a two-byte character, and a byte that is not valid UTF-8.
MessageChars ==
    {"a", "\"", "\\", "\n", "<", "é", InvalidByte}

\* The longest message.
MaxMessageLen ==
    2

\* The strings over chars of at most n characters.
RECURSIVE StringsUpTo(_, _)
StringsUpTo(chars, n) ==
    IF n = 0 THEN { <<>> }
    ELSE LET shorter == StringsUpTo(chars, n - 1)
         IN  shorter \cup { Append(s, c) : s \in shorter, c \in chars }

\* Error texts: "", "why", "<" and the byte 0xFF.
ErrorSamples ==
    { sEmpty, sWhy, <<"<">>, <<InvalidByte>> }

\* The values of EmailResponse the callers build.
EmailResponses ==
    { EmailResponse(s, m, e) :
        s \in BOOLEAN, m \in StringsUpTo(MessageChars, MaxMessageLen), e \in ErrorSamples }

\* r.ToJSON() called by p.
ToJSONCall(p, r) ==
    /\ pc[p] = "idle"
    /\ pc' = [pc EXCEPT ![p] = "returned"]
    /\ result' = [result EXCEPT ![p] =
                    [type |-> "ToJSON", r |-> r,
                     json |-> ToJSON(r).json, err |-> ToJSON(r).err]]
    /\ UNCHANGED << config, readers, writer, call, client, copies, lastDebug >>

\* FromJSON called by p with the text that ToJSON has just returned to it.
FromJSONCall(p) ==
    /\ pc[p] = "returned"
    /\ result[p].type = "ToJSON"
    /\ result[p].err = "nil"
    /\ result' = [result EXCEPT ![p] =
                    [type |-> "FromJSON", r |-> result[p].r, json |-> result[p].json,
                     resp |-> FromJSON(result[p].json).resp,
                     err |-> FromJSON(result[p].json).err]]
    /\ UNCHANGED << config, readers, writer, pc, call, client, copies, lastDebug >>

NextModels ==
    \E p \in Callers :
        \/ \E r \in EmailResponses : ToJSONCall(p, r)
        \/ FromJSONCall(p)
        \/ Continue(p)

SpecModels ==
    InitDefault /\ [][NextModels]_vars

(***************************************************************************)
(* config.go: a caller reads the configuration from the environment.       *)
(***************************************************************************)
\* NewConfigFromEnv() called by p in the environment env.
NewConfigFromEnvCall(p, env) ==
    /\ pc[p] = "idle"
    /\ pc' = [pc EXCEPT ![p] = "returned"]
    /\ result' = [result EXCEPT ![p] =
                    [type |-> "NewConfigFromEnv", env |-> env,
                     cfg |-> NewConfigFromEnv(env)]]
    /\ UNCHANGED << config, readers, writer, call, client, copies, lastDebug >>

NextEnv ==
    \E p \in Callers :
        \/ \E env \in EnvSamples : NewConfigFromEnvCall(p, env)
        \/ Continue(p)

SpecEnv ==
    InitDefault /\ [][NextEnv]_vars

(***************************************************************************)
(* email.go: a caller builds an Email and calls its setters.  The Email is *)
(* an object at the address EmailPtr of the heap of Emails; the goroutine  *)
(* remembers the pointer e it holds, the heap before the latest call, the  *)
(* pointer the latest call returned and what HasHTML and HasText return.   *)
(***************************************************************************)
\* The address of the Email that a constructor allocates.
EmailPtr ==
    1

\* A SetHTML that also clears the text content.
SetHTMLClearingText(heap, e, html) ==
    [heap |-> [heap EXCEPT ![e].HTML = html, ![e].Text = <<>>], ret |-> e]

\* Email.SetHTML: e.HTML = html; return e
SetHTML(heap, e, html) ==
    [heap |-> [heap EXCEPT ![e].HTML = html], ret |-> e]

\* Email.SetText: e.Text = text; return e
SetText(heap, e, text) ==
    [heap |-> [heap EXCEPT ![e].Text = text], ret |-> e]

\* Email.SetBoth: e.HTML = html; e.Text = text; return e
SetBoth(heap, e, html, text) ==
    [heap |-> [heap EXCEPT ![e].HTML = html, ![e].Text = text], ret |-> e]

\* Email.HasHTML: strings.TrimSpace(e.HTML) != ""
HasHTML(email) ==
    ~BulkIsBlank(email.HTML)

\* Email.HasText: strings.TrimSpace(e.Text) != ""
HasText(email) ==
    ~BulkIsBlank(email.Text)

\* Bodies: "", " " and "<p>"; "", a line feed and "yo".
SetterHTMLSamples ==
    { <<>>, << [ch |-> " ", n |-> 1] >>,
      << [ch |-> "<", n |-> 1], [ch |-> "p", n |-> 1], [ch |-> ">", n |-> 1] >> }

SetterTextSamples ==
    { <<>>, << [ch |-> "\n", n |-> 1] >>, OneEmail.Text }

\* What the goroutine knows after the call op with the arguments args has
\* returned ret and left the heap as after.
EmailResult(op, args, before, after, ret) ==
    [type |-> "Email", op |-> op, args |-> args, e |-> EmailPtr,
     before |-> before, heap |-> after, ret |-> ret,
     hasHTML |-> HasHTML(after[EmailPtr]), hasText |-> HasText(after[EmailPtr])]

\* A constructor of Email called by p: the new Email is at EmailPtr.
Build(p, op, args, email) ==
    /\ pc[p] = "idle"
    /\ pc' = [pc EXCEPT ![p] = "returned"]
    /\ result' = [result EXCEPT ![p] =
                    EmailResult(op, args, <<>>, <<email>>, EmailPtr)]
    /\ UNCHANGED << config, readers, writer, call, client, copies, lastDebug >>

NewEmailCall(p, from, to, subject) ==
    Build(p, "NewEmail", [html |-> <<>>, text |-> <<>>], NewEmail(from, to, subject))

NewHTMLEmailCall(p, from, to, subject, html) ==
    Build(p, "NewHTMLEmail", [html |-> html, text |-> <<>>],
          NewHTMLEmail(from, to, subject, html))

NewTextEmailCall(p, from, to, subject, text) ==
    Build(p, "NewTextEmail", [html |-> <<>>, text |-> text],
          NewTextEmail(from, to, subject, text))

NewEmailWithBothCall(p, from, to, subject, html, text) ==
    Build(p, "NewEmailWithBoth", [html |-> html, text |-> text],
          NewEmailWithBoth(from, to, subject, html, text))

\* A setter called by p on the Email it holds.
Set(p, op, args, set) ==
    /\ pc[p] = "returned"
    /\ result[p].type = "Email"
    /\ result' = [result EXCEPT ![p] =
                    EmailResult(op, args, result[p].heap, set.heap, set.ret)]
    /\ UNCHANGED << config, readers, writer, pc, call, client, copies, lastDebug >>

SetHTMLCall(p, html) ==
    /\ result[p].type = "Email"
    /\ Set(p, "SetHTML", [html |-> html, text |-> <<>>],
           SetHTML(result[p].heap, result[p].e, html))

SetTextCall(p, text) ==
    /\ result[p].type = "Email"
    /\ Set(p, "SetText", [html |-> <<>>, text |-> text],
           SetText(result[p].heap, result[p].e, text))

SetBothCall(p, html, text) ==
    /\ result[p].type = "Email"
    /\ Set(p, "SetBoth", [html |-> html, text |-> text],
           SetBoth(result[p].heap, result[p].e, html, text))

NextEmail ==
    \E p \in Callers :
        \/ \E from \in FromSamples :
              NewEmailCall(p, from, OneEmail.To, OneEmail.Subject)
        \/ \E html \in SetterHTMLSamples :
              NewHTMLEmailCall(p, OneEmail.From, OneEmail.To, OneEmail.Subject, html)
        \/ \E text \in SetterTextSamples :
              NewTextEmailCall(p, OneEmail.From, OneEmail.To, OneEmail.Subject, text)
        \/ \E html \in SetterHTMLSamples, text \in SetterTextSamples :
              NewEmailWithBothCall(p, OneEmail.From, OneEmail.To, <<>>, html, text)
        \/ \E html \in SetterHTMLSamples : SetHTMLCall(p, html)
        \/ \E text \in SetterTextSamples : SetTextCall(p, text)
        \/ \E html \in SetterHTMLSamples, text \in SetterTextSamples :
              SetBothCall(p, html, text)
        \/ Continue(p)

SpecEmail ==
    InitDefault /\ [][NextEmail]_vars

(***************************************************************************)
(* Properties of Send.  A property speaks of the call that has just        *)
(* returned to a goroutine: what it was given (the email, what the         *)
(* transport gave back) and what it returned.                              *)
(***************************************************************************)
\* A Send has just returned to p.
SendReturned(p) ==
    pc[p] = "returned" /\ result[p].type = "Send"

\* ... and it had received a response whose body it could read.
GotResponse(p) ==
    /\ SendReturned(p)
    /\ result[p].sent
    /\ result[p].tr.kind = "response"
    /\ result[p].tr.ReadOK

GotStatus(p, codes) ==
    GotResponse(p) /\ result[p].tr.StatusCode \in codes

\* The body decoded into a struct with the given fields: whether it parses,
\* and the values of its fields.
Parses(body, fields) ==
    ~Unmarshal(body, fields).err

Parsed(body, fields) ==
    Unmarshal(body, fields).val

\* C1: a Send of an email that Validate rejects returns no response and
\* that ValidationError, and Do is not invoked: neither has the call that
\* returned invoked it, nor is a call with such an email ever waiting in Do.
C1_InvalidEmailNeverSent ==
    \A p \in Callers :
        /\ (SendReturned(p) /\ Validate(result[p].email) # NIL) =>
              /\ result[p].resp = NIL
              /\ result[p].err = Validate(result[p].email)
              /\ result[p].err.type = "ValidationError"
              /\ result[p].doCalls = 0
              /\ ~result[p].sent
        /\ (pc[p] = "inDo") => Validate(call[p].email) = NIL

C1_Witness ==
    \E p \in Callers :
        /\ SendReturned(p)
        /\ Validate(result[p].email) # NIL
        /\ result[p].err.type = "ValidationError"
        /\ "from" \in DOMAIN result[p].err.Errors

\* C2: a Send that returns gives either a response and no error, or an
\* error and no response.
C2_ExactlyOneOutcome ==
    \A p \in Callers :
        SendReturned(p) =>
            \/ (result[p].resp # NIL /\ result[p].err = NIL)
            \/ (result[p].resp = NIL /\ result[p].err # NIL)

C2_Witness ==
    \E p \in Callers :
        /\ GotStatus(p, {StatusAccepted})
        /\ ~Parses(result[p].tr.Body, EmailResponseFields)
        /\ result[p].resp = NIL
        /\ result[p].err # NIL

\* C3 as stated: every Send whose email passes validation invokes Do
\* exactly once.
C3_Original ==
    \A p \in Callers :
        (SendReturned(p) /\ Validate(result[p].email) = NIL) =>
            result[p].doCalls = 1

\* C3 as amended: a Send whose email passes validation invokes Do exactly
\* once when http.NewRequest accepts the request URL, whatever the transport
\* gives back; when NewRequest rejects the URL, Do is not invoked and Send
\* returns the NetworkError "Failed to create request".
C3_DoExactlyOnce ==
    \A p \in Callers :
        /\ (SendReturned(p) /\ Validate(result[p].email) = NIL) =>
              IF NewRequestFails(RequestURL(config))
              THEN /\ result[p].doCalls = 0
                   /\ result[p].resp = NIL
                   /\ result[p].err.type = "NetworkError"
                   /\ result[p].err.Message = sFailedToCreate
              ELSE /\ result[p].doCalls = 1
                   /\ result[p].sent
        /\ (pc[p] = "inDo") => call[p].doCalls = 1

C3_Witness ==
    \E p \in Callers :
        /\ SendReturned(p)
        /\ Validate(result[p].email) = NIL
        /\ result[p].sent
        /\ result[p].tr.kind = "error"
        /\ result[p].doCalls = 1

\* C4: on status 202 a body that parses gives the response with the parsed
\* success, message and error unchanged and no error; a body that does not
\* parse gives no response and the NetworkError "Failed to parse response".
C4_SuccessVerbatim ==
    \A p \in Callers :
        GotStatus(p, {StatusAccepted}) =>
            LET body == result[p].tr.Body
                v == Parsed(body, EmailResponseFields)
            IN  IF Parses(body, EmailResponseFields)
                THEN /\ result[p].err = NIL
                     /\ result[p].resp.Success = v.success
                     /\ result[p].resp.Message = v.message
                     /\ result[p].resp.Error = v.error
                ELSE /\ result[p].resp = NIL
                     /\ result[p].err.type = "NetworkError"
                     /\ result[p].err.Message = sFailedToParse

C4_Witness ==
    \E p \in Callers :
        /\ GotStatus(p, {StatusAccepted})
        /\ Parses(result[p].tr.Body, EmailResponseFields)
        /\ result[p].tr.Body.kind = "object"
        /\ "success" \in DOMAIN result[p].tr.Body.fields
        /\ result[p].resp.Success = FALSE
        /\ result[p].resp.Message # sEmpty
        /\ result[p].err = NIL

\* The header line whose name is name in any spelling, as the server wrote
\* it: its value, or "" when there is no such line.
LowerCase(s) ==
    [ i \in DOMAIN s |-> ToLowerChar(s[i]) ]

WireValue(wire, name) ==
    LET hits == { i \in DOMAIN wire : LowerCase(wire[i].name) = LowerCase(name) }
    IN  IF hits = {} THEN sEmpty
        ELSE wire[CHOOSE i \in hits : \A j \in hits : i <= j].value

\* The integer a header value stands for; 0 when it is not an integer.
IntegerValue(s) ==
    IF AtoiOK(s) THEN AtoiVal(s) ELSE 0

\* "Rate limit exceeded. Retry after {retryAfter} seconds."
RetryMessage(retryAfter) ==
    sRateLimitExceeded \o Itoa(retryAfter) \o sSecondsDot

\* The four numbers of C5: on status 429 the RateLimitError carries the
\* integer values of the four headers, found under any spelling of their
\* names, 0 for a header that is absent or not an integer.
RateLimitNumbers(p) ==
    LET wire == result[p].tr.Wire
        e == result[p].err
    IN  /\ result[p].resp = NIL
        /\ e.type = "RateLimitError"
        /\ e.RetryAfter = IntegerValue(WireValue(wire, hRetryAfter))
        /\ e.Limit = IntegerValue(WireValue(wire, hRatelimitLimit))
        /\ e.Remaining = IntegerValue(WireValue(wire, hRatelimitRemaining))
        /\ e.Reset = IntegerValue(WireValue(wire, hRatelimitReset))

\* C5 as stated: the numbers, and the message is the body's message, or the
\* synthesized one when the body's message is empty or the body does not
\* parse.
C5_Original ==
    \A p \in Callers :
        GotStatus(p, {StatusTooManyRequests}) =>
            LET body == result[p].tr.Body
                e == result[p].err
            IN  /\ RateLimitNumbers(p)
                /\ e.Message =
                     IF /\ Parses(body, MessageErrorFields)
                        /\ Parsed(body, MessageErrorFields).message # sEmpty
                     THEN Parsed(body, MessageErrorFields).message
                     ELSE RetryMessage(e.RetryAfter)

\* C5 as amended: the numbers, and the message is the message decoded from
\* the body whenever that is non-empty, also when decoding reports an error
\* for another field of the body; it is the synthesized one when no
\* non-empty message was decoded (the body is not JSON or not an object,
\* or its message is absent, empty or not a string).
C5_RateLimit ==
    \A p \in Callers :
        GotStatus(p, {StatusTooManyRequests}) =>
            LET body == result[p].tr.Body
                e == result[p].err
                decoded ==
                    IF /\ body.kind = "object"
                       /\ "message" \in DOMAIN body.fields
                       /\ body.fields["message"].t = "string"
                    THEN body.fields["message"].v
                    ELSE sEmpty
            IN  /\ RateLimitNumbers(p)
                /\ e.Message = IF decoded # sEmpty THEN decoded
                               ELSE RetryMessage(e.RetryAfter)

\* A 429 whose header names are in upper case, with a retry-after of 60, a
\* reset that is not a plain digit string, and a body that does not parse.
C5_Witness ==
    \E p \in Callers :
        /\ GotStatus(p, {StatusTooManyRequests})
        /\ \E i \in DOMAIN result[p].tr.Wire :
              result[p].tr.Wire[i].name = UpperCase(hRetryAfter)
        /\ ~Parses(result[p].tr.Body, MessageErrorFields)
        /\ result[p].err.RetryAfter = 60
        /\ result[p].err.Reset = 5
        /\ result[p].err.Message = RetryMessage(60)

\* C6: on status 402 a body that parses gives a SubscriptionError whose
\* errorType is subscription_expired when the message contains "expired",
\* else trial_limit_reached when it contains "trial", else limit_reached
\* when it contains "limit", else unknown; a body that does not parse gives
\* SubscriptionError("Subscription error", "unknown").
C6_SubscriptionType ==
    \A p \in Callers :
        GotStatus(p, {StatusPaymentRequired}) =>
            LET body == result[p].tr.Body
                m == Parsed(body, MessageErrorFields).message
                e == result[p].err
            IN  /\ result[p].resp = NIL
                /\ e.type = "SubscriptionError"
                /\ IF Parses(body, MessageErrorFields)
                   THEN /\ Contains(m, sExpired) => e.ErrorType = sSubscriptionExpired
                        /\ (~Contains(m, sExpired) /\ Contains(m, sTrial)) =>
                              e.ErrorType = sTrialLimitReached
                        /\ (~Contains(m, sExpired) /\ ~Contains(m, sTrial)
                              /\ Contains(m, sLimit)) =>
                              e.ErrorType = sLimitReached
                        /\ (~Contains(m, sExpired) /\ ~Contains(m, sTrial)
                              /\ ~Contains(m, sLimit)) =>
                              e.ErrorType = sUnknown
                   ELSE /\ e.Message = sSubscriptionError
                        /\ e.ErrorType = sUnknown

\* A message with both "trial" and "expired".
C6_Witness ==
    \E p \in Callers :
        /\ GotStatus(p, {StatusPaymentRequired})
        /\ Parses(result[p].tr.Body, MessageErrorFields)
        /\ Contains(Parsed(result[p].tr.Body, MessageErrorFields).message, sTrial)
        /\ Contains(Parsed(result[p].tr.Body, MessageErrorFields).message, sExpired)
        /\ result[p].err.ErrorType = sSubscriptionExpired

\* C7: on status 400 or 422 a body that parses gives a ValidationError with
\* errors["request"] = [message], and with the key "details" exactly when
\* the body's error is non-empty, errors["details"] = [error]; a body that
\* does not parse gives exactly {"request": ["Invalid request format"]}.
C7_ValidationErrors ==
    \A p \in Callers :
        GotStatus(p, {StatusBadRequest, StatusUnprocessableEntity}) =>
            LET body == result[p].tr.Body
                v == Parsed(body, EmailResponseFields)
                e == result[p].err
            IN  /\ result[p].resp = NIL
                /\ e.type = "ValidationError"
                /\ IF Parses(body, EmailResponseFields)
                   THEN /\ "request" \in DOMAIN e.Errors
                        /\ e.Errors["request"] = << v.message >>
                        /\ ("details" \in DOMAIN e.Errors) <=> (v.error # sEmpty)
                        /\ (v.error # sEmpty) => e.Errors["details"] = << v.error >>
                        /\ DOMAIN e.Errors \subseteq {"request", "details"}
                   ELSE /\ DOMAIN e.Errors = {"request"}
                        /\ e.Errors["request"] = << sInvalidRequestFormat >>

C7_Witness ==
    \E p \in Callers :
        /\ GotStatus(p, {StatusUnprocessableEntity})
        /\ Parses(result[p].tr.Body, EmailResponseFields)
        /\ Parsed(result[p].tr.Body, EmailResponseFields).error # sEmpty
        /\ DOMAIN result[p].err.Errors = {"request", "details"}

\* C8: on status 401 the AuthenticationError's message is the body's
\* message when the body parses and the message is non-empty, and
\* "Invalid or missing API key" otherwise.
C8_AuthenticationMessage ==
    \A p \in Callers :
        GotStatus(p, {StatusUnauthorized}) =>
            LET body == result[p].tr.Body
                m == Parsed(body, MessageFields).message
                e == result[p].err
            IN  /\ result[p].resp = NIL
                /\ e.type = "AuthenticationError"
                /\ e.Message = IF Parses(body, MessageFields) /\ m # sEmpty
                               THEN m ELSE sInvalidAPIKey

C8_Witness ==
    \E p \in Callers :
        /\ GotStatus(p, {StatusUnauthorized})
        /\ Parses(result[p].tr.Body, MessageFields)
        /\ Parsed(result[p].tr.Body, MessageFields).message = sEmpty
        /\ result[p].err.Message = sInvalidAPIKey

\* C9 as stated: on status 403 the AccountSuspendedError's message is the
\* body's message and its reason the body's error when the body parses, and
\* the error is AccountSuspendedError("Account suspended", "unknown") when
\* it does not.
C9_Original ==
    \A p \in Callers :
        GotStatus(p, {StatusForbidden}) =>
            LET body == result[p].tr.Body
                v == Parsed(body, MessageErrorFields)
                e == result[p].err
            IN  /\ result[p].resp = NIL
                /\ e.type = "AccountSuspendedError"
                /\ IF Parses(body, MessageErrorFields)
                   THEN e.Message = v.message /\ e.Reason = v.error
                   ELSE e.Message = sAccountSuspended /\ e.Reason = sUnknown

\* C9 as amended: when the body parses, the message is the body's message
\* if that is non-empty and "Account suspended" if it is empty or absent;
\* the reason is the body's error; a body that does not parse gives
\* AccountSuspendedError("Account suspended", "unknown").
C9_AccountSuspended ==
    \A p \in Callers :
        GotStatus(p, {StatusForbidden}) =>
            LET body == result[p].tr.Body
                v == Parsed(body, MessageErrorFields)
                e == result[p].err
            IN  /\ result[p].resp = NIL
                /\ e.type = "AccountSuspendedError"
                /\ IF Parses(body, MessageErrorFields)
                   THEN /\ e.Message = IF v.message # sEmpty THEN v.message
                                       ELSE sAccountSuspended
                        /\ e.Reason = v.error
                   ELSE e.Message = sAccountSuspended /\ e.Reason = sUnknown

C9_Witness ==
    \E p \in Callers :
        /\ GotStatus(p, {StatusForbidden})
        /\ Parses(result[p].tr.Body, MessageErrorFields)
        /\ Parsed(result[p].tr.Body, MessageErrorFields).message = sEmpty
        /\ result[p].err.Reason = sWhy
        /\ result[p].err.Message = sAccountSuspended

\* The statuses the switch of SendEmail names.
NamedStatuses ==
    { StatusAccepted, StatusBadRequest, StatusUnauthorized, StatusPaymentRequired,
      StatusForbidden, StatusUnprocessableEntity, StatusTooManyRequests }

\* C10: on any other status the error is an HTTPError whose code is the
\* status, whose message is the body's message when the body parses and the
\* message is non-empty and "HTTP {code} error" otherwise, whose url is the
\* URL of the request and whose responseBody is the body as received.
C10_GenericHTTPError ==
    \A p \in Callers :
        (GotResponse(p) /\ result[p].tr.StatusCode \notin NamedStatuses) =>
            LET body == result[p].tr.Body
                code == result[p].tr.StatusCode
                m == Parsed(body, MessageErrorFields).message
                e == result[p].err
            IN  /\ result[p].resp = NIL
                /\ e.type = "HTTPError"
                /\ e.Code = code
                /\ e.Message = IF Parses(body, MessageErrorFields) /\ m # sEmpty
                               THEN m
                               ELSE sHTTP \o Itoa(code) \o sError
                /\ e.URL = result[p].req.URL
                /\ e.URL = TrimRight(config.BaseURL, sSlash) \o sSendEmailPath
                /\ e.ResponseBody = body

\* A 500 whose body holds a message but does not parse.
C10_Witness ==
    \E p \in Callers :
        /\ GotResponse(p)
        /\ result[p].tr.StatusCode = 500
        /\ result[p].tr.Body.kind = "object"
        /\ "message" \in DOMAIN result[p].tr.Body.fields
        /\ result[p].tr.Body.fields["message"] = JString(<<"o","k">>)
        /\ ~Parses(result[p].tr.Body, MessageErrorFields)
        /\ result[p].err.Message = sHTTP \o <<"5","0","0">> \o sError
        /\ result[p].err.ResponseBody = result[p].tr.Body

\* The outcome of the Send that has just returned to p is an HTTPError.
IsHTTPError(p) ==
    result[p].err # NIL /\ result[p].err.type = "HTTPError"

\* C11 as stated: for a response whose status is in 200..299 the outcome of
\* Send is not an HTTPError.
C11_Original ==
    \A p \in Callers :
        (GotResponse(p) /\ result[p].tr.StatusCode \in 200..299) => ~IsHTTPError(p)

\* C11, amended: Send returns an HTTPError exactly when it has read a
\* response whose status is none of 202, 400, 401, 402, 403, 422, 429.  So a
\* 202 never gives an HTTPError, and every other 2xx status (200, 204) does.
C11_HTTPErrorOnlyUnnamed ==
    \A p \in Callers :
        SendReturned(p) =>
            (IsHTTPError(p) <=>
                (GotResponse(p) /\ result[p].tr.StatusCode \notin NamedStatuses))

\* A 204 whose outcome is an HTTPError with code 204.
C11_Witness ==
    \E p \in Callers :
        /\ GotResponse(p)
        /\ result[p].tr.StatusCode = 204
        /\ IsHTTPError(p)
        /\ result[p].err.Code = 204

\* C12: when Do returns an error, Send returns a NetworkError with the URL
\* of the request; when the failure is a timeout it is the connection_timeout
\* variant, whose context holds error_type "connection_timeout", the
\* configured Timeout in whole seconds and the URL; any other failure gives
\* the network_error variant.
C12_TransportError ==
    \A p \in Callers :
        (SendReturned(p) /\ result[p].sent /\ result[p].tr.kind = "error") =>
            LET e == result[p].err
            IN  /\ result[p].resp = NIL
                /\ e.type = "NetworkError"
                /\ e.URL = result[p].req.URL
                /\ IF result[p].tr.timeout
                   THEN /\ e.ContextMap.error_type = "connection_timeout"
                        /\ e.ContextMap.timeout = DurationSeconds(config.Timeout)
                        /\ e.ContextMap.url = result[p].req.URL
                   ELSE e.ContextMap.error_type = "network_error"

(***************************************************************************)
(* Properties of Email.Validate and isValidEmail.                          *)
(***************************************************************************)
\* A call of Email.Validate has just returned to p.
ValidateReturned(p) ==
    pc[p] = "returned" /\ result[p].type = "Validate"

\* The keys of the errors mapping Validate returned (none when it returned
\* nil).
ErrorKeys(err) ==
    IF err = NIL THEN {} ELSE DOMAIN err.Errors

\* The rules an email violates, by the name of their key.
ViolatedRules(e) ==
    { k \in {"from", "to", "subject", "content", "html", "text"} :
        \/ k = "from" /\ (TrimSpace(e.From) = sEmpty \/ ~isValidEmail(e.From))
        \/ k = "to" /\ (TrimSpace(e.To) = sEmpty \/ ~isValidEmail(e.To))
        \/ k = "subject" /\ TrimSpace(e.Subject) = sEmpty
        \/ k = "content" /\ BulkIsBlank(e.HTML) /\ BulkIsBlank(e.Text)
        \/ k = "html" /\ BulkLen(e.HTML) > MaxContentSize
        \/ k = "text" /\ BulkLen(e.Text) > MaxContentSize }

\* C13: Validate does not stop at the first violated rule: the keys of the
\* errors mapping it returns are exactly the violated rules, every key maps
\* to a non-empty list, and it returns nil exactly when no rule is violated.
C13_ValidateAccumulates ==
    \A p \in Callers :
        ValidateReturned(p) =>
            LET e == result[p].email
                err == result[p].err
            IN  /\ (err = NIL) <=> (ViolatedRules(e) = {})
                /\ err # NIL =>
                     /\ err.type = "ValidationError"
                     /\ DOMAIN err.Errors = ViolatedRules(e)
                     /\ \A k \in DOMAIN err.Errors : Len(err.Errors[k]) >= 1

\* An email that violates four rules at once: from, subject, content, html.
C13_Witness ==
    \E p \in Callers :
        /\ ValidateReturned(p)
        /\ result[p].email.From = <<"b","a","d">>
        /\ result[p].email.HTML = Bulk(" ", MaxContentSize + 1)
        /\ ErrorKeys(result[p].err) = {"from", "subject", "content", "html"}

\* The size rule of one body field: own is the field, other the other body
\* field, key the field's key, keys the keys Validate reported.
SizeRuleHolds(own, other, key, keys) ==
    /\ (key \in keys) <=> (BulkLen(own) > MaxContentSize)
    /\ own = Bulk("x", 10 * 1024 * 1024) => key \notin keys
    /\ own = Bulk("x", 10 * 1024 * 1024 + 1) => key \in keys
    /\ own = Bulk("é", 5 * 1024 * 1024 + 1) => key \in keys
    /\ (own = Bulk(" ", 10 * 1024 * 1024 + 1) /\ BulkIsBlank(other)) =>
          (key \in keys /\ "content" \in keys)

\* C14: the size limit is inclusive and independent of the blank check: a
\* body of exactly 10 MiB raises no size error, one of 10 MiB + 1 raises it,
\* the length is counted in bytes (not in characters), and an over-long body
\* that is blank raises its size error and, when the other body is blank
\* too, the content error as well.
C14_SizeLimit ==
    \A p \in Callers :
        ValidateReturned(p) =>
            LET e == result[p].email
                keys == ErrorKeys(result[p].err)
            IN  /\ SizeRuleHolds(e.HTML, e.Text, "html", keys)
                /\ SizeRuleHolds(e.Text, e.HTML, "text", keys)

\* An email whose html is exactly 10 MiB and which Validate accepts.
C14_Witness ==
    \E p \in Callers :
        /\ ValidateReturned(p)
        /\ result[p].email.HTML = Bulk("x", MaxContentSize)
        /\ BulkLen(result[p].email.HTML) = 10 * 1024 * 1024
        /\ result[p].err = NIL

\* A call of isValidEmail has just returned to p.
IsValidEmailReturned(p) ==
    pc[p] = "returned" /\ result[p].type = "isValidEmail"

\* [A-Za-z0-9._%+-] and [A-Za-z0-9-]
LocalAlphabet ==
    Range(LowerLetters) \cup Range(UpperLetters) \cup Range(DigitChars)
        \cup {".", "_", "%", "+", "-"}

LabelAlphabet ==
    Range(LowerLetters) \cup Range(UpperLetters) \cup Range(DigitChars) \cup {"-"}

\* s matches local-part@domain: the local part one or more of
\* [A-Za-z0-9._%+-], the domain two or more labels separated by dots, each
\* one or more of [A-Za-z0-9-], the last one of two or more letters.
MatchesGrammar(s) ==
    LET parts == Split(s, sAt)
        labels == Split(parts[2], sDot)
        last == labels[Len(labels)]
    IN  /\ Len(parts) = 2
        /\ Len(parts[1]) >= 1
        /\ \A i \in DOMAIN parts[1] : parts[1][i] \in LocalAlphabet
        /\ Len(labels) >= 2
        /\ \A l \in DOMAIN labels :
              /\ Len(labels[l]) >= 1
              /\ \A i \in DOMAIN labels[l] : labels[l][i] \in LabelAlphabet
        /\ Len(last) >= 2
        /\ \A i \in DOMAIN last : IsLetter(last[i])

\* s, of the form local@domain, is in one of the listed violation classes.
ExtraViolation(s) ==
    LET parts == Split(s, sAt)
        localPart == parts[1]
        domainPart == parts[2]
        labels == Split(domainPart, sDot)
    IN  /\ Len(parts) = 2
        /\ \/ HasPrefix(localPart, sDot) \/ HasSuffix(localPart, sDot)
           \/ Contains(localPart, sDotDot)
           \/ HasPrefix(domainPart, sHyphen) \/ HasSuffix(domainPart, sHyphen)
           \/ HasPrefix(domainPart, sDot) \/ HasSuffix(domainPart, sDot)
           \/ Contains(domainPart, sDotDot)
           \/ \E l \in DOMAIN labels :
                 \/ Len(labels[l]) = 0
                 \/ HasPrefix(labels[l], sHyphen)
                 \/ HasSuffix(labels[l], sHyphen)

\* s is to be rejected: empty, longer than 254 bytes, not of the grammar, or
\* in a violation class.
Rejectable(s) ==
    \/ ByteLen(s) = 0
    \/ ByteLen(s) > 254
    \/ ~MatchesGrammar(s)
    \/ ExtraViolation(s)

C16_AcceptsGrammar ==
    \A p \in Callers :
        IsValidEmailReturned(p) =>
            LET s == result[p].email
            IN  /\ (ByteLen(s) <= 254 /\ MatchesGrammar(s) /\ ~ExtraViolation(s)) =>
                      result[p].ok
                /\ s \in { <<"u","s","e","r","+","t","a","g">> \o sAt
                             \o <<"e","x","a","m","p","l","e",".","c","o","m">>,
                           <<"u","s","e","r","1","2","3">> \o sAt
                             \o <<"e","x","a","m","p","l","e","-","d","o","m","a","i","n",".","c","o","m">> }
                     => result[p].ok

\* An address of exactly 254 bytes that isValidEmail accepts.
C16_Witness ==
    \E p \in Callers :
        /\ IsValidEmailReturned(p)
        /\ ByteLen(result[p].email) = 254
        /\ MatchesGrammar(result[p].email)
        /\ ~ExtraViolation(result[p].email)
        /\ result[p].ok

(***************************************************************************)
(* client.go: concurrency, the copy returned by GetConfig, construction.   *)
(***************************************************************************)
\* The goroutine is between the lock and the unlock of a SetDebug.
Writing(p) ==
    pc[p] = "SetDebug"

\* The goroutine is between the lock and the unlock of a call that reads
\* the configuration.
Reading(p) ==
    pc[p] \in {"IsDebug", "GetConfig"}

\* No call of the goroutine is in progress.
Quiet(p) ==
    pc[p] \in {"idle", "returned"}

\* C17: under any interleaving of SetDebug, IsDebug and GetConfig from
\* several goroutines on one client built with the defaults, no write of
\* the debug flag overlaps a read or another write of it; every IsDebug and
\* every GetConfig().Debug that has returned gave the argument of the most
\* recent SetDebug in the order of the lock (false when there was none);
\* and when no call is in progress the flag is the argument of the last
\* SetDebug.
C17_DebugConcurrency ==
    /\ \A p \in DOMAIN pc : \A q \in DOMAIN pc \ {p} :
          Writing(p) => ~(Writing(q) \/ Reading(q))
    /\ \A p \in DOMAIN pc :
          pc[p] = "returned" =>
             /\ result[p].type = "IsDebug" => result[p].value = result[p].last
             /\ result[p].type = "GetConfig" =>
                   result[p].value.Debug = result[p].last
    /\ (\A p \in DOMAIN pc : Quiet(p)) => config.Debug = lastDebug

\* C17 witness: SetDebug(true) has returned in one goroutine and an IsDebug
\* of the other goroutine has returned true, the argument of the latest
\* SetDebug.
C17_Witness ==
    /\ pc["g2"] = "returned"
    /\ result["g2"].type = "SetDebug"
    /\ result["g2"].debug
    /\ pc["g1"] = "returned"
    /\ result["g1"].type = "IsDebug"
    /\ result["g1"].value
    /\ result["g1"].last

\* GetConfig has returned to the goroutine, which still holds the Config.
HoldsConfig(p) ==
    pc[p] = "returned" /\ result[p].type = "GetConfig"

\* What GetConfig, IsDebug and Send observe on a client that was built from
\* client.cfg when the latest SetDebug had the argument debug.
Observed(debug) ==
    [client.cfg EXCEPT !.Debug = debug]

\* C18: GetConfig returns a defensive copy.  The Config it returns is a new
\* object, not the client's own and not the one another call has returned,
\* with the field values of the client's configuration; and as long as the
\* caller of the constructor has not written to the object it passed in,
\* the configuration that GetConfig, IsDebug and Send read is the one the
\* client was built from with the flag of the latest SetDebug, whatever the
\* callers of GetConfig have written to the objects returned to them.
C18_DefensiveCopy ==
    /\ \A p \in DOMAIN pc :
          HoldsConfig(p) =>
             /\ result[p].ptr \in CopyPtrs
             /\ \A q \in DOMAIN pc \ {p} :
                   HoldsConfig(q) => result[q].ptr # result[p].ptr
    /\ (HasClient /\ ~client.cfgWritten) =>
          /\ config = Observed(lastDebug)
          /\ \A p \in DOMAIN pc :
                HoldsConfig(p) => result[p].value = Observed(result[p].last)

\* C18 witness: one goroutine has emptied the API key of the Config that
\* GetConfig returned to it, and a GetConfig of the other goroutine has
\* returned a second object with the same values as the first had.
C18_Witness ==
    /\ HasClient
    /\ ~client.cfgWritten
    /\ HoldsConfig("g1")
    /\ HoldsConfig("g2")
    /\ copies[result["g1"].ptr].APIKey = sEmpty
    /\ copies[result["g2"].ptr] = result["g2"].value
    /\ result["g2"].value = result["g1"].value
    /\ result["g2"].value.APIKey # sEmpty

\* The names of the constructors.
Constructors ==
    {"NewClient", "NewClientFromEnv", "NewClientWithConfig"}

\* A constructor call of the goroutine has ended, by a return or a panic.
Constructed(p) ==
    pc[p] \in {"returned", "panicked"} /\ result[p].type \in Constructors

\* The configuration has an empty API key, an empty base URL, a
\* non-positive timeout or a non-positive connect timeout.
InvalidConfig(cfg) ==
    \/ cfg.APIKey = sEmpty
    \/ cfg.BaseURL = sEmpty
    \/ cfg.Timeout <= 0
    \/ cfg.ConnectTimeout <= 0

\* C19: a constructor (NewClient, NewClientFromEnv, NewClientWithConfig)
\* whose configuration has an empty API key, an empty base URL, a
\* non-positive timeout or a non-positive connect timeout panics and there
\* is no client; with any other configuration it returns a client, and
\* GetConfig on that client returns the values supplied.
C19_ConstructorPanics ==
    /\ \A p \in DOMAIN pc :
          Constructed(p) =>
             IF InvalidConfig(result[p].cfg)
             THEN /\ pc[p] = "panicked"
                  /\ result[p].panic # "nil"
                  /\ ~HasClient
             ELSE /\ pc[p] = "returned"
                  /\ result[p].panic = "nil"
                  /\ HasClient
                  /\ client.by = result[p].type
                  /\ client.cfg = result[p].cfg
    /\ \A p \in DOMAIN pc :
          HoldsConfig(p) =>
             /\ ~InvalidConfig(client.cfg)
             /\ result[p].value = client.cfg
    /\ \A p \in DOMAIN pc : pc[p] = "panicked" => ~HasClient

\* C19 witness: a constructor has panicked on a configuration whose only
\* fault is a non-positive connect timeout.
C19_Witness ==
    /\ pc["g1"] = "panicked"
    /\ result["g1"].cfg.APIKey # sEmpty
    /\ result["g1"].cfg.BaseURL # sEmpty
    /\ result["g1"].cfg.Timeout > 0
    /\ result["g1"].cfg.ConnectTimeout <= 0
    /\ ~HasClient

\* C20: a client is never usable in an invalid state.  Once a constructor
\* has returned a client, the configuration that the client reads satisfies
\* Config.Validate, every Config that GetConfig has returned satisfies it,
\* and every request that Send has handed to the transport carries a
\* non-empty API key, whatever the client's callers do and whatever the
\* caller of NewClientWithConfig writes to the Config it passed in.
C20_NeverInvalid ==
    HasClient =>
       /\ ConfigValidate(config) = "nil"
       /\ \A p \in DOMAIN pc :
             /\ HoldsConfig(p) => ConfigValidate(result[p].value) = "nil"
             /\ pc[p] = "inDo" =>
                   call[p].req.Header.Authorization # sBearer

(***************************************************************************)
(* client.go: the lock around Send and SetDebug.                           *)
(***************************************************************************)
\* The Send of the goroutine is between RLock and RUnlock, in the HTTP call.
InFlight(p) ==
    pc[p] = "inDo"

\* C21: Send holds the client's lock in shared mode and SetDebug holds it
\* in exclusive mode.  A Send in its HTTP call is among the readers and no
\* goroutine is writing; a SetDebug between Lock and Unlock is the only
\* holder; and the debug flag still has the value it had when the Send took
\* the lock, so that no SetDebug write has taken effect since.
C21_SharedExclusive ==
    /\ \A p \in DOMAIN pc :
          InFlight(p) =>
             /\ p \in readers
             /\ writer = NoWriter
             /\ \A q \in DOMAIN pc : ~Writing(q)
             /\ config.Debug = call[p].loggedRequest
    /\ \A p \in DOMAIN pc :
          Writing(p) => writer = p /\ readers = {}

\* C21 witness: the Sends of two goroutines are in their HTTP calls at the
\* same time, both holding the lock.
C21_Witness ==
    /\ InFlight("g1")
    /\ InFlight("g2")
    /\ readers = {"g1", "g2"}

\* C27: within one Send the debug flag is read consistently.  When the Send
\* has read the body of a response, the flag it read for logging the
\* response is the flag it read for logging the request, whatever SetDebug
\* calls other goroutines have made in the meantime.
C27_DebugConsistent ==
    \A p \in DOMAIN pc :
       GotResponse(p) => result[p].loggedResponse = result[p].loggedRequest

\* C27 witness: a Send has logged its request and its response while a
\* SetDebug(false) of the other goroutine, called during the Send, is still
\* waiting for the lock.
C27_Witness ==
    /\ GotResponse("g1")
    /\ result["g1"].loggedRequest
    /\ result["g1"].loggedResponse
    /\ pc["g2"] = "SetDebugWait"
    /\ ~call["g2"].debug

\* The fields of a configuration other than the debug flag.
FixedFields ==
    {"APIKey", "BaseURL", "Timeout", "ConnectTimeout"}

\* C28: SetDebug changes only the debug flag, and Send, SendHTML, SendText,
\* SendWithBoth, IsDebug and GetConfig change nothing.  After any sequence
\* of these calls the API key, the base URL, the timeout and the connect
\* timeout of the client, and those that GetConfig returns, are the ones
\* the client was built with.
C28_ConfigFrame ==
    /\ \A f \in FixedFields : config[f] = client.cfg[f]
    /\ \A p \in DOMAIN pc :
          HoldsConfig(p) => \A f \in FixedFields : result[p].value[f] = client.cfg[f]

\* C28 witness: after a SetDebug(true) and a Send that reached the server,
\* GetConfig returns the API key "k" of the construction and the flag true.
C28_Witness ==
    /\ HoldsConfig("g1")
    /\ result["g1"].value.Debug
    /\ result["g1"].value.APIKey = <<"k">>
    /\ result["g1"].value.Timeout = 30000
    /\ SendReturned("g2")
    /\ result["g2"].sent
    /\ result["g2"].loggedRequest

\* The goroutine holds the client's lock, shared or exclusive.
Holds(p) ==
    p \in readers \/ writer = p

\* The goroutine is inside a call, past the point where it took the lock.
Inside(p) ==
    pc[p] \in {"inDo", "IsDebug", "GetConfig", "SetDebug"}

\* The SetDebug of the goroutine is called and waits for the lock.
Waits(p) ==
    pc[p] = "SetDebugWait"

\* The SetDebug of the goroutine has returned.
SetDebugReturned(p) ==
    pc[p] = "returned" /\ result[p].type = "SetDebug"

\* C29: the client's lock is never left held and never blocks for ever.
\* A goroutine holds the lock only inside a call: every Send, whether it
\* fails validation, fails in the transport or gets a response of any
\* status, and every GetConfig, IsDebug and SetDebug has released it when it
\* returns.  And when every transport call in flight eventually returns,
\* every SetDebug that is called, also while Sends are in flight,
\* eventually gets the lock and returns.
C29_LockReleased ==
    /\ [](\A p \in Goroutines : Holds(p) => Inside(p))
    /\ \A p \in Goroutines : Waits(p) ~> SetDebugReturned(p)

\* C29 witness: SetDebug has been called while the Send of the other
\* goroutine is in its HTTP call, and waits for the lock.
C29_Witness ==
    /\ Waits("g2")
    /\ InFlight("g1")
    /\ Holds("g1")

(***************************************************************************)
(* models.go and config.go.                                                *)
(***************************************************************************)
\* FromJSON has returned to the goroutine, called with the text of ToJSON.
RoundTripped(p) ==
    pc[p] = "returned" /\ result[p].type = "FromJSON"

\* The string with each byte that is not valid UTF-8 replaced by U+FFFD.
ToValidUTF8(s) ==
    [ i \in DOMAIN s |-> IF s[i] = InvalidByte THEN ReplacementChar ELSE s[i] ]

\* C22 as stated: for every EmailResponse r, with any success value, any
\* message and any error, FromJSON(ToJSON(r)) succeeds and gives a value
\* with the success, message and error of r.
C22_Original ==
    \A p \in DOMAIN pc :
       RoundTripped(p) =>
          /\ result[p].err = "nil"
          /\ result[p].resp.Success = result[p].r.Success
          /\ result[p].resp.Message = result[p].r.Message
          /\ result[p].resp.Error = result[p].r.Error

\* C22 as amended: for every EmailResponse r, FromJSON(ToJSON(r)) succeeds
\* and gives the success of r and the message and error of r with each
\* byte that is not valid UTF-8 replaced by U+FFFD; so it gives the fields
\* of r whenever the message and the error of r are valid UTF-8.
C22_RoundTripValidUTF8 ==
    \A p \in DOMAIN pc :
       RoundTripped(p) =>
          /\ result[p].err = "nil"
          /\ result[p].resp.Success = result[p].r.Success
          /\ result[p].resp.Message = ToValidUTF8(result[p].r.Message)
          /\ result[p].resp.Error = ToValidUTF8(result[p].r.Error)
          /\ (\A i \in DOMAIN result[p].r.Message : result[p].r.Message[i] # InvalidByte)
                => result[p].resp.Message = result[p].r.Message
          /\ (\A i \in DOMAIN result[p].r.Error : result[p].r.Error[i] # InvalidByte)
                => result[p].resp.Error = result[p].r.Error

\* C22 witness: a response with a quote and a backslash in its message and
\* < as its error has come back from the round trip as it was.
C22_Witness ==
    /\ RoundTripped("g1")
    /\ result["g1"].r.Message = <<"\"", "\\">>
    /\ result["g1"].r.Error = <<"<">>
    /\ result["g1"].r.Success
    /\ result["g1"].resp = result["g1"].r

\* The durations that the sample texts denote, in milliseconds: "45s",
\* "0s", "-5s", "1.5s", "1m30s", "0", "15s".  Every other text is malformed
\* ("abc", and "5", which has no unit).
DurationTexts ==
    { [text |-> <<"4","5","s">>, d |-> 45000],
      [text |-> <<"0","s">>, d |-> 0],
      [text |-> <<"-","5","s">>, d |-> -5000],
      [text |-> <<"1",".","5","s">>, d |-> 1500],
      [text |-> <<"1","m","3","0","s">>, d |-> 90000],
      [text |-> <<"0">>, d |-> 0],
      [text |-> <<"1","5","s">>, d |-> 15000] }

\* The booleans that the sample texts denote: "true", "T", "0".  Every
\* other text is malformed ("yes").
BoolTexts ==
    { [text |-> <<"t","r","u","e">>, b |-> TRUE],
      [text |-> <<"T">>, b |-> TRUE],
      [text |-> <<"0">>, b |-> FALSE] }

\* The duration that a variable denotes when it is set and well-formed
\* according to the table, and otherwise the default.  (A variable that is
\* empty counts as not set.)
DurationOf(text, default) ==
    IF \E e \in DurationTexts : e.text = text
    THEN (CHOOSE e \in DurationTexts : e.text = text).d
    ELSE default

\* The same for a boolean.
BoolOf(text, default) ==
    IF \E e \in BoolTexts : e.text = text
    THEN (CHOOSE e \in BoolTexts : e.text = text).b
    ELSE default

\* NewConfigFromEnv has returned to the goroutine.
EnvRead(p) ==
    pc[p] = "returned" /\ result[p].type = "NewConfigFromEnv"

\* C23: NewConfigFromEnv gives each of API key, base URL, timeout, connect
\* timeout and debug the value of its POODLE_ variable when the variable is
\* set and well-formed, and otherwise the default: an empty API key,
\* https://api.usepoodle.com, 30 s, 10 s and false.  A malformed duration or
\* boolean leaves its field at the default, whatever the other variables
\* are, and each field depends on its own variable only.
C23_ConfigFromEnv ==
    \A p \in DOMAIN pc :
       EnvRead(p) =>
          LET env == result[p].env
              cfg == result[p].cfg
          IN  /\ cfg.APIKey = env.POODLE_API_KEY
              /\ cfg.BaseURL = IF env.POODLE_BASE_URL # sEmpty
                               THEN env.POODLE_BASE_URL
                               ELSE <<"h","t","t","p","s",":","/","/","a","p","i",".","u","s","e","p","o","o","d","l","e",".","c","o","m">>
              /\ cfg.Timeout = DurationOf(env.POODLE_TIMEOUT, 30000)
              /\ cfg.ConnectTimeout =
                    DurationOf(env.POODLE_CONNECT_TIMEOUT, 10000)
              /\ cfg.Debug = BoolOf(env.POODLE_DEBUG, FALSE)

\* C23 witness: POODLE_TIMEOUT is "abc" and POODLE_DEBUG is "true", and the
\* configuration has the default timeout of 30 s and the debug flag set.
C23_Witness ==
    /\ EnvRead("g1")
    /\ result["g1"].env.POODLE_TIMEOUT = <<"a","b","c">>
    /\ result["g1"].env.POODLE_DEBUG = <<"t","r","u","e">>
    /\ result["g1"].env.POODLE_CONNECT_TIMEOUT = <<"1","5","s">>
    /\ result["g1"].cfg.Timeout = 30000
    /\ result["g1"].cfg.ConnectTimeout = 15000
    /\ result["g1"].cfg.Debug

\* A constructor or a setter of Email has returned to the goroutine.
EmailReturned(p, ops) ==
    pc[p] = "returned" /\ result[p].type = "Email" /\ result[p].op \in ops

\* The body has a character that is not white space.
NonBlank(b) ==
    \E i \in DOMAIN b : b[i].n > 0 /\ b[i].ch \notin {" ", "\t", "\n", "\r", "\f"}

\* The Email of the goroutine before and after the latest call.
EmailBefore(p) ==
    result[p].before[result[p].e]

EmailAfter(p) ==
    result[p].heap[result[p].e]

\* The fields are the same before and after the call.
Kept(p, fields) ==
    \A f \in fields : EmailAfter(p)[f] = EmailBefore(p)[f]

\* C25: the builders and setters of Email touch only their own fields.
\* NewHTMLEmail leaves Text empty and NewTextEmail leaves HTML empty;
\* SetHTML changes only HTML, SetText only Text, SetBoth exactly HTML and
\* Text, each to its argument, and none of them From, To or Subject; each
\* setter returns the Email it was called on; and afterwards HasHTML
\* (HasText) is true exactly when HTML (Text) is not blank after trimming.
C25_EmailFrame ==
    \A p \in DOMAIN pc :
       /\ EmailReturned(p, {"NewHTMLEmail"}) =>
             EmailAfter(p).Text = <<>> /\ EmailAfter(p).HTML = result[p].args.html
       /\ EmailReturned(p, {"NewTextEmail"}) =>
             EmailAfter(p).HTML = <<>> /\ EmailAfter(p).Text = result[p].args.text
       /\ EmailReturned(p, {"SetHTML"}) =>
             /\ EmailAfter(p).HTML = result[p].args.html
             /\ Kept(p, {"From", "To", "Subject", "Text"})
       /\ EmailReturned(p, {"SetText"}) =>
             /\ EmailAfter(p).Text = result[p].args.text
             /\ Kept(p, {"From", "To", "Subject", "HTML"})
       /\ EmailReturned(p, {"SetBoth"}) =>
             /\ EmailAfter(p).HTML = result[p].args.html
             /\ EmailAfter(p).Text = result[p].args.text
             /\ Kept(p, {"From", "To", "Subject"})
       /\ EmailReturned(p, {"SetHTML", "SetText", "SetBoth"}) =>
             /\ result[p].ret = result[p].e
             /\ DOMAIN result[p].heap = DOMAIN result[p].before
       /\ EmailReturned(p, {"NewEmail", "NewHTMLEmail", "NewTextEmail",
                            "NewEmailWithBoth", "SetHTML", "SetText", "SetBoth"}) =>
             /\ result[p].hasHTML <=> NonBlank(EmailAfter(p).HTML)
             /\ result[p].hasText <=> NonBlank(EmailAfter(p).Text)

\* C25 witness: SetHTML(" ") has been called on an Email that had the text
\* "yo"; the text is still there, HasText is true and HasHTML is false.
C25_Witness ==
    /\ EmailReturned("g1", {"SetHTML"})
    /\ EmailAfter("g1").HTML = << [ch |-> " ", n |-> 1] >>
    /\ EmailBefore("g1").HTML # EmailAfter("g1").HTML
    /\ EmailAfter("g1").Text = OneEmail.Text
    /\ result["g1"].hasText
    /\ ~result["g1"].hasHTML

(***************************************************************************)
(* http.go: the request, the codes and the messages of the errors.         *)
(***************************************************************************)
\* The request that the Send of the goroutine has handed to the transport:
\* the one of the call in progress.
Issued(p) ==
    pc[p] = "inDo"

\* The string without the slashes at its end.
RECURSIVE WithoutTrailingSlashes(_)
WithoutTrailingSlashes(s) ==
    IF s # <<>> /\ s[Len(s)] = "/"
    THEN WithoutTrailingSlashes(SubSeq(s, 1, Len(s) - 1))
    ELSE s

\* The body with each byte that is not valid UTF-8 replaced by U+FFFD.
BulkToValidUTF8(b) ==
    [ i \in DOMAIN b |-> [ch |-> ToValidUTF8(<<b[i].ch>>)[1], n |-> b[i].n] ]

\* The body that a reader of the JSON text gets for the key.
BulkRead(value) ==
    [ i \in DOMAIN value.v |->
        [ch |-> DecodeString(value.v[i].text)[1], n |-> value.v[i].n] ]

\* The headers of the request are those of the wire protocol.
HeadersAsSpecified(req) ==
    /\ req.Method = <<"P","O","S","T">>
    /\ req.Header.ContentType = <<"a","p","p","l","i","c","a","t","i","o","n","/","j","s","o","n">>
    /\ req.Header.Accept = <<"a","p","p","l","i","c","a","t","i","o","n","/","j","s","o","n">>
    /\ req.Header.Authorization = <<"B","e","a","r","e","r"," ">> \o config.APIKey
    /\ req.Header.UserAgent = <<"p","o","o","d","l","e","-","g","o","/">> \o SDKVersion

\* The keys of the body: from, to and subject, and html and text exactly
\* when the field of the message is not empty.
KeysAsSpecified(req, email) ==
    /\ req.Body.kind = "object"
    /\ {"from", "to", "subject"} \subseteq DOMAIN req.Body.fields
    /\ DOMAIN req.Body.fields \subseteq {"from", "to", "subject", "html", "text"}
    /\ "html" \in DOMAIN req.Body.fields <=> email.HTML # <<>>
    /\ "text" \in DOMAIN req.Body.fields <=> email.Text # <<>>

\* C24 as stated: the one request of a Send is a POST to the base URL
\* followed by /v1/send-email, with the four headers, and a JSON body that
\* has from, to and subject equal to the fields of the message and has html
\* and text exactly when those fields are not empty.
C24_Original ==
    \A p \in DOMAIN pc :
       Issued(p) =>
          LET req == call[p].req
              email == call[p].email
          IN  /\ call[p].doCalls = 1
              /\ req.URL = config.BaseURL \o <<"/","v","1","/","s","e","n","d","-","e","m","a","i","l">>
              /\ HeadersAsSpecified(req)
              /\ KeysAsSpecified(req, email)
              /\ DecodeString(req.Body.fields.from.v) = email.From
              /\ DecodeString(req.Body.fields.to.v) = email.To
              /\ DecodeString(req.Body.fields.subject.v) = email.Subject

\* C24 as amended: the one request of a Send is a POST to the base URL
\* without the slashes at its end, followed by /v1/send-email, with the
\* four headers, and a JSON body that has from, to and subject, and html
\* and text exactly when those fields of the message are not empty, each
\* with the value of the field in which every byte that is not valid UTF-8
\* is replaced by U+FFFD.
C24_Request ==
    \A p \in DOMAIN pc :
       Issued(p) =>
          LET req == call[p].req
              email == call[p].email
              fields == req.Body.fields
          IN  /\ call[p].doCalls = 1
              /\ req.URL = WithoutTrailingSlashes(config.BaseURL)
                              \o <<"/","v","1","/","s","e","n","d","-","e","m","a","i","l">>
              /\ HeadersAsSpecified(req)
              /\ KeysAsSpecified(req, email)
              /\ DecodeString(fields.from.v) = ToValidUTF8(email.From)
              /\ DecodeString(fields.to.v) = ToValidUTF8(email.To)
              /\ DecodeString(fields.subject.v) = ToValidUTF8(email.Subject)
              /\ email.HTML # <<>> => BulkRead(fields.html) = BulkToValidUTF8(email.HTML)
              /\ email.Text # <<>> => BulkRead(fields.text) = BulkToValidUTF8(email.Text)

\* C24 witness: a client whose base URL ends with a slash has issued the
\* request for a message with the HTML body "<p>" and no text body; the
\* body of the request has html and has no text.
C24_Witness ==
    /\ Issued("g1")
    /\ config.BaseURL = <<"h","t","t","p",":","/","/","t","i","m","e","o","u","t","/">>
    /\ call["g1"].req.URL = <<"h","t","t","p",":","/","/","t","i","m","e","o","u","t">>
                               \o <<"/","v","1","/","s","e","n","d","-","e","m","a","i","l">>
    /\ call["g1"].email.Text = <<>>
    /\ Len(call["g1"].email.HTML) = 3
    /\ DOMAIN call["g1"].req.Body.fields = {"from", "to", "subject", "html"}
    /\ call["g1"].req.Body.fields.subject.v = <<"\\", "\"", "\\", "\\">>

\* C26: for every response with a status other than 202 whose body Send
\* could read, the error that Send returns carries the status code of that
\* response as its numeric code, for 400, 401, 402, 403, 422, 429 and every
\* other status.
C26_CodeIsStatus ==
    \A p \in DOMAIN pc :
       (GotResponse(p) /\ result[p].tr.StatusCode # StatusAccepted) =>
          /\ result[p].err # NIL
          /\ StatusCodeOf(result[p].err) = result[p].tr.StatusCode

\* C30: every error that Send returns has a message: Error() is never the
\* empty string, whether the error comes from the validation of the
\* message, from the transport, or from a response of any status whose body
\* has a message, has an empty message, has none or cannot be parsed.
C30_ErrorHasMessage ==
    \A p \in DOMAIN pc :
       (SendReturned(p) /\ result[p].err # NIL) =>
          ErrorString(result[p].err) # sEmpty

\* C30 witness: a 422 response whose body is valid JSON with an empty
\* message has given a ValidationError whose Message field is empty and
\* whose Error() is "Validation failed".
C30_Witness ==
    /\ GotStatus("g1", {StatusUnprocessableEntity})
    /\ result["g1"].tr.Body.kind = "object"
    /\ "message" \in DOMAIN result["g1"].tr.Body.fields
    /\ result["g1"].tr.Body.fields.message = JString(sEmpty)
    /\ result["g1"].err.type = "ValidationError"
    /\ result["g1"].err.Message = sEmpty
    /\ ErrorString(result["g1"].err) = <<"V","a","l","i","d","a","t","i","o","n"," ","f","a","i","l","e","d">>
=============================================================================
